---- MODULE Spec2Model ----
(***************************************************************************)
(* Model of the aggregation-and-translation layer of git2local (ear):      *)
(*   - GitHubService.aggregate_by_developer  (src/ear/services/github_service.py) *)
(*   - OdooService.api / enrich_ticket / aggregate_by_user                 *)
(*                                           (src/ear/services/odoo_service.py)   *)
(*   - QueryParser.parse                     (src/ear/utils/query_parser.py)      *)
(* Each component has its own specification (SpecGitHub, SpecOdoo,         *)
(* SpecParser); the variables of the other components stay idle.           *)
(***************************************************************************)
EXTENDS Integers, Sequences, FiniteSets, TLC

VARIABLES
    data,                \* aggregate_by_developer: the `data` argument
    filter_devs,         \* aggregate_by_developer: the `filter_devs` argument
    developer_activity,  \* aggregate_by_developer: the returned mapping
    rerun_activity,      \* aggregate_by_developer: what a second call returned
    gh_pc,               \* "idle" | "input" (arguments chosen) | "done" (returned) |
                         \* "again" (a second call with the same arguments returned)
    password,            \* OdooService.config.password is set (truthy)
    api,                 \* OdooService._api: "None" or "OdooAPI"
    uid,                 \* OdooAPI.uid of the connection (0: None / False)
    users_cache,         \* OdooService._users_cache
    partners_cache,      \* OdooService._partners_cache
    stages_cache,        \* OdooService._stages_cache
    call,                \* the last call on the service: arguments, outcome, result
    backend,             \* the version of the data held by the Odoo server
    lookups,             \* per cache, the backend lookups this instance has performed
    first_value,         \* per cache, the value the first of these lookups returned
    api_ref,             \* which OdooAPI object OdooService._api refers to (0: None)
    conns,               \* per OdooAPI object, its uid (0: None / False)
    threads,             \* per thread, its position in enrich_ticket and its locals
    field_value,         \* extract_name_from_odoo_tuple: the `field_value` argument
    extracted,           \* extract_name_from_odoo_tuple: the returned value
    ex_pc,               \* "idle" | "input" (argument chosen) | "done" (returned)
    query_text,          \* QueryParser.parse: the `query_text` argument
    today,               \* datetime.now().date() at the time of the call
    parsed,              \* QueryParser.parse: the returned (domain, options)
    qp_pc,               \* "idle" | "input" (argument chosen) | "done" (returned) |
                         \* "summarized" (get_query_summary returned)
    summary,             \* QueryParser.get_query_summary: the returned text
    cli                  \* the `generate` command: options, position, outcome

ghVars == <<data, filter_devs, developer_activity, rerun_activity, gh_pc>>
odooVars ==
    <<password, api, uid, users_cache, partners_cache, stages_cache, call, backend, lookups,
      first_value>>
thVars == <<api_ref, conns, threads>>
exVars == <<field_value, extracted, ex_pc>>
qpVars == <<query_text, today, parsed, qp_pc, summary>>
cliVars == <<cli>>
vars == <<ghVars, odooVars, qpVars, thVars, exVars, cliVars>>

(***************************************************************************)
(* Python values                                                           *)
(***************************************************************************)
\* Python's None where a string is expected (author, login)
None == "None"

\* Optional[Set[str]]: None, or a set of names
NoFilter == [is_none |-> TRUE, names |-> {}]

SomeFilter(S) == [is_none |-> FALSE, names |-> S]

\* truth value of an Optional[Set[str]]: None and the empty set are falsy
Truthy(f) == ~f.is_none /\ f.names # {}

(***************************************************************************)
(* Strings as code point sequences, for sorted()                           *)
(***************************************************************************)
Codes(s) ==
    CASE s = "org/web" -> <<111, 114, 103, 47, 119, 101, 98>>
      [] s = "org/api" -> <<111, 114, 103, 47, 97, 112, 105>>
      [] s = "ACME"        -> <<65, 67, 77, 69>>
      [] s = "Portal"      -> <<80, 111, 114, 116, 97, 108>>
      [] s = "No Customer" -> <<78, 111, 32, 67, 117, 115, 116, 111, 109, 101, 114>>
      [] s = "No Project"  -> <<78, 111, 32, 80, 114, 111, 106, 101, 99, 116>>
      [] OTHER         -> <<>>

RECURSIVE SeqLess(_, _)
\* Python's str.__lt__: lexicographic by code point, a proper prefix is smaller
SeqLess(a, b) ==
    IF b = <<>> THEN FALSE
    ELSE IF a = <<>> THEN TRUE
    ELSE IF Head(a) # Head(b) THEN Head(a) < Head(b)
    ELSE SeqLess(Tail(a), Tail(b))

StrLess(a, b) == SeqLess(Codes(a), Codes(b))

RECURSIVE sorted(_)
\* sorted(list(S)) of a set of strings: ascending, one entry per element
sorted(S) ==
    IF S = {} THEN <<>>
    ELSE LET m == CHOOSE x \in S : \A y \in S \ {x} : StrLess(x, y)
         IN <<m>> \o sorted(S \ {m})

Range(s) == {s[i] : i \in DOMAIN s}

\* Op(v), with v evaluated once (a local variable holding a computed value)
With(v, Op(_)) == CHOOSE y \in {Op(x) : x \in {v}} : TRUE

(***************************************************************************)
(* Inputs of aggregate_by_developer                                        *)
(***************************************************************************)
\* total number of issue, PR, comment and review nodes in one input
MaxNodes == 3

Logins == {"alice", "bob"}

Authors == Logins \cup {None}

Repos == {"org/web", "org/api"}

FilterNames == {"alice", "ghost", "carol"}

Filters == {NoFilter} \cup {SomeFilter(S) : S \in SUBSET FilterNames}

\* comment / review nodes: k-th node of its parent, with a nullable author
NodeSeqs(n) ==
    UNION {{[i \in 1..m |-> [id |-> i, author |-> f[i]]] : f \in [1..m -> Authors]} : m \in 0..n}

IssueSize(i) == 1 + Len(i.comments)

PRSize(p) == 1 + Len(p.comments) + Len(p.reviews)

IssueShapes(n, num) ==
    IF n < 1 THEN {}
    ELSE {[number |-> num, author |-> a, repo |-> r, comments |-> c] :
            a \in Authors, r \in Repos, c \in NodeSeqs(n - 1)}

PRShapes(n, num) ==
    IF n < 1 THEN {}
    ELSE UNION {{[number |-> num, author |-> a, repo |-> r, comments |-> c, reviews |-> v] :
                    a \in Authors, r \in Repos, v \in NodeSeqs(n - 1 - Len(c))} :
                c \in NodeSeqs(n - 1)}

RECURSIVE IssueSeqs(_, _)
IssueSeqs(n, num) ==
    {<<>>} \cup UNION {{<<i>> \o rest : rest \in IssueSeqs(n - IssueSize(i), num + 1)} :
                        i \in IssueShapes(n, num)}

RECURSIVE PRSeqs(_, _)
PRSeqs(n, num) ==
    {<<>>} \cup UNION {{<<p>> \o rest : rest \in PRSeqs(n - PRSize(p), num + 1)} :
                        p \in PRShapes(n, num)}

RECURSIVE SumSizes(_, _)
SumSizes(s, k) == IF k = 0 THEN 0 ELSE SumSizes(s, k - 1) + 1 + Len(s[k].comments)

\* the GraphQL search results {'issues': ..., 'prs': ...} (edges flattened to nodes)
Inputs ==
    UNION {{[issues |-> is, prs |-> ps] : ps \in PRSeqs(MaxNodes - SumSizes(is, Len(is)), 1)} :
            is \in IssueSeqs(MaxNodes, 1)}

(***************************************************************************)
(* GitHubService.aggregate_by_developer                                    *)
(***************************************************************************)
Roles == {"issues_created", "issues_commented", "prs_created", "prs_reviewed", "prs_commented"}

\* the inner defaultdict factory: one empty list per role
EmptyRepoActivity == [r \in Roles |-> <<>>]

\* the outer defaultdict factory
EmptyActivity ==
    [issues_created |-> <<>>, issues_commented |-> <<>>, prs_created |-> <<>>,
     prs_reviewed |-> <<>>, prs_commented |-> <<>>,
     repos |-> {}, by_repo |-> <<>>,
     total_comments |-> 0, total_issues |-> 0, total_prs |-> 0, total_reviews |-> 0]

\* defaultdict.__getitem__: a missing key is inserted with the factory's value
Touch(m, k, dflt) == IF k \in DOMAIN m THEN m ELSE m @@ (k :> dflt)

\* mutant of LoginOf: the absent author is not replaced
LoginOfNoGhost(author) == author

\* author['login'] if author else 'ghost'
LoginOf(author) == IF author # None THEN author ELSE "ghost"

\* `not filter_devs or name in filter_devs`
Passes(f, name) == ~Truthy(f) \/ name \in f.names

\* mutant of Attribute: the counter increment is forgotten
AttributeNoCount(da, dev, repo_name, role, counter, item) ==
    LET da1 == Touch(da, dev, EmptyActivity)
        br  == Touch(da1[dev].by_repo, repo_name, EmptyRepoActivity)
    IN [da1 EXCEPT ![dev] =
            [@ EXCEPT ![role] = Append(@, item),
                      !.repos = @ \cup {repo_name},
                      !.by_repo = [br EXCEPT ![repo_name][role] = Append(@, item)]]]

\* mutant of Attribute: the item is put in front of the lists
AttributeInFront(da, dev, repo_name, role, counter, item) ==
    LET da1 == Touch(da, dev, EmptyActivity)
        br  == Touch(da1[dev].by_repo, repo_name, EmptyRepoActivity)
    IN [da1 EXCEPT ![dev] =
            [@ EXCEPT ![role] = <<item>> \o @,
                      !.repos = @ \cup {repo_name},
                      !.by_repo = [br EXCEPT ![repo_name][role] = <<item>> \o @],
                      ![counter] = @ + 1]]

\* the four statements of one branch: append to the role list, add the repo,
\* append to the per-repo role list, increment the counter
Attribute(da, dev, repo_name, role, counter, item) ==
    LET da1 == Touch(da, dev, EmptyActivity)
        br  == Touch(da1[dev].by_repo, repo_name, EmptyRepoActivity)
    IN [da1 EXCEPT ![dev] =
            [@ EXCEPT ![role] = Append(@, item),
                      !.repos = @ \cup {repo_name},
                      !.by_repo = [br EXCEPT ![repo_name][role] = Append(@, item)],
                      ![counter] = @ + 1]]

RECURSIVE IssueComments(_, _, _, _)
\* for comment in issue['comments']['nodes'] (from the k-th on)
IssueComments(da, f, issue, k) ==
    IF k > Len(issue.comments) THEN da
    ELSE LET comment == issue.comments[k]
             commenter == LoginOf(comment.author)
             da1 == IF Passes(f, commenter)
                    THEN Attribute(da, commenter, issue.repo, "issues_commented",
                                   "total_comments", [issue |-> issue, comment |-> comment])
                    ELSE da
         IN IssueComments(da1, f, issue, k + 1)

RECURSIVE PRComments(_, _, _, _)
\* for comment in pr['comments']['nodes'] (from the k-th on)
PRComments(da, f, pr, k) ==
    IF k > Len(pr.comments) THEN da
    ELSE LET comment == pr.comments[k]
             commenter == LoginOf(comment.author)
             da1 == IF Passes(f, commenter)
                    THEN Attribute(da, commenter, pr.repo, "prs_commented",
                                   "total_comments", [pr |-> pr, comment |-> comment])
                    ELSE da
         IN PRComments(da1, f, pr, k + 1)

RECURSIVE PRReviews(_, _, _, _)
\* for review in pr['reviews']['nodes'] (from the k-th on)
PRReviews(da, f, pr, k) ==
    IF k > Len(pr.reviews) THEN da
    ELSE LET review == pr.reviews[k]
             reviewer == LoginOf(review.author)
             da1 == IF Passes(f, reviewer)
                    THEN Attribute(da, reviewer, pr.repo, "prs_reviewed",
                                   "total_reviews", [pr |-> pr, review |-> review])
                    ELSE da
         IN PRReviews(da1, f, pr, k + 1)

RECURSIVE ProcessIssuesNested(_, _, _, _)
\* mutant of ProcessIssues: the comments of an issue are walked only when the
\* author of the issue passes the filter
ProcessIssuesNested(da, f, issues, k) ==
    IF k > Len(issues) THEN da
    ELSE LET issue == issues[k]
             author == LoginOf(issue.author)
             da1 == IF Passes(f, author)
                    THEN IssueComments(Attribute(da, author, issue.repo, "issues_created",
                                                 "total_issues", issue), f, issue, 1)
                    ELSE da
         IN ProcessIssuesNested(da1, f, issues, k + 1)

RECURSIVE ProcessIssues(_, _, _, _)
\* for edge in data['issues']['data']['search']['edges'] (from the k-th on)
ProcessIssues(da, f, issues, k) ==
    IF k > Len(issues) THEN da
    ELSE LET issue == issues[k]
             author == LoginOf(issue.author)
             da1 == IF Passes(f, author)
                    THEN Attribute(da, author, issue.repo, "issues_created",
                                   "total_issues", issue)
                    ELSE da
         IN ProcessIssues(IssueComments(da1, f, issue, 1), f, issues, k + 1)

RECURSIVE ProcessPRs(_, _, _, _)
\* for edge in data['prs']['data']['search']['edges'] (from the k-th on)
ProcessPRs(da, f, prs, k) ==
    IF k > Len(prs) THEN da
    ELSE LET pr == prs[k]
             author == LoginOf(pr.author)
             da1 == IF Passes(f, author)
                    THEN Attribute(da, author, pr.repo, "prs_created", "total_prs", pr)
                    ELSE da
             da2 == PRComments(da1, f, pr, 1)
         IN ProcessPRs(PRReviews(da2, f, pr, 1), f, prs, k + 1)

RECURSIVE Reverse(_)
Reverse(s) == IF s = <<>> THEN <<>> ELSE Append(Reverse(Tail(s)), Head(s))

\* mutant of Finalize: the repository list comes out in descending order
FinalizeDescending(da) == [dev \in DOMAIN da |-> [da[dev] EXCEPT !.repos = Reverse(sorted(@))]]

\* convert sets to lists and defaultdicts to dicts
Finalize(da) == [dev \in DOMAIN da |-> [da[dev] EXCEPT !.repos = sorted(@)]]

\* mutant of Restrict: every requested name gets a summary, an empty one if
\* it produced no activity
RestrictWithPlaceholders(da, f) ==
    IF Truthy(f)
    THEN [k \in f.names |-> IF k \in DOMAIN da THEN da[k]
                                               ELSE [EmptyActivity EXCEPT !.repos = <<>>]]
    ELSE da

\* filter out developers not in the filter list
Restrict(da, f) ==
    IF Truthy(f) THEN [k \in DOMAIN da \cap f.names |-> da[k]] ELSE da

aggregate_by_developer(d, f) ==
    Restrict(Finalize(ProcessPRs(ProcessIssues(<<>>, f, d.issues, 1), f, d.prs, 1)), f)

(***************************************************************************)
(* Odoo backend (OdooAPI) as seen by OdooService                           *)
(***************************************************************************)
\* the uid the server returns for valid credentials
UID == 2

\* Optional[Dict]: None, or a mapping
NoneCache == [is_none |-> TRUE, map |-> <<>>]

Cached(m) == [is_none |-> FALSE, map |-> m]

\* the server's data changes over time: two versions of it
Versions == {1, 2}

\* res.users / res.partner rows as {id: name}
UsersTableOf(v) == IF v = 1 THEN (7 :> "Alice") ELSE (7 :> "Alicia")

UsersTable == UsersTableOf(backend)

PartnersTableOf(v) == IF v = 1 THEN (5 :> "ACME") ELSE (5 :> "Acme Ltd")

PartnersTable == PartnersTableOf(backend)

\* helpdesk.stage rows read by search_read
StageRowsOf(v) ==
    IF v = 1
    THEN {[id |-> 1, name |-> "New", fold |-> FALSE, sequence |-> 1],
          [id |-> 2, name |-> "Done", fold |-> TRUE, sequence |-> 2]}
    ELSE {[id |-> 1, name |-> "Neu", fold |-> TRUE, sequence |-> 1],
          [id |-> 2, name |-> "Done", fold |-> TRUE, sequence |-> 2],
          [id |-> 9, name |-> "Gone", fold |-> FALSE, sequence |-> 3]}

StageRows == StageRowsOf(backend)

\* the dict comprehension of get_helpdesk_stages: is_closed is the row's fold
StagesTableOf(v) ==
    [i \in {r.id : r \in StageRowsOf(v)} |->
        LET r == CHOOSE r \in StageRowsOf(v) : r.id = i
        IN [name |-> r.name, is_closed |-> r.fold, sequence |-> r.sequence]]

StagesTable == StagesTableOf(backend)

BackendTable(cache) ==
    CASE cache = "users_cache" -> UsersTable
      [] cache = "partners_cache" -> PartnersTable
      [] cache = "stages_cache" -> StagesTable

\* OdooAPI.authenticate: uid is set from the server's answer; a refusal leaves
\* it falsy, an exception leaves it unset
authenticate(svc, auth_ok) == [svc EXCEPT !.uid = IF auth_ok THEN UID ELSE 0]

\* mutant of lookup: a failed lookup returns None instead of an empty dict
lookupNone(svc, cache, auth_ok, rpc_ok) ==
    With(IF svc.uid = 0 THEN authenticate(svc, auth_ok) ELSE svc,
         LAMBDA s1 :
            IF s1.uid = 0 \/ ~rpc_ok
            THEN [svc |-> s1, value |-> NoneCache, failed |-> TRUE]
            ELSE [svc |-> s1, value |-> Cached(BackendTable(cache)), failed |-> FALSE])

\* OdooAPI.fetch_users / fetch_partners / get_helpdesk_stages: authenticate if
\* there is no uid, return {} when that fails or when execute_kw raises
lookup(svc, cache, auth_ok, rpc_ok) ==
    With(IF svc.uid = 0 THEN authenticate(svc, auth_ok) ELSE svc,
         LAMBDA s1 :
            IF s1.uid = 0 \/ ~rpc_ok
            THEN [svc |-> s1, value |-> Cached(<<>>), failed |-> TRUE]
            ELSE [svc |-> s1, value |-> Cached(BackendTable(cache)), failed |-> FALSE])

(***************************************************************************)
(* OdooService                                                             *)
(***************************************************************************)
\* the fields of one OdooService instance
Service ==
    [password |-> password, api |-> api, uid |-> uid, users_cache |-> users_cache,
     partners_cache |-> partners_cache, stages_cache |-> stages_cache]

\* the `api` property: creates and authenticates the connection on first use.
\* self._api is assigned before authenticate() is called.
property_api(svc, auth_ok) ==
    IF svc.api = "None"
    THEN IF ~svc.password
         THEN [svc |-> svc, raised |-> TRUE, connect |-> "no_password"]
         ELSE With(authenticate([svc EXCEPT !.api = "OdooAPI", !.uid = 0], auth_ok),
                   LAMBDA s1 :
                      IF s1.uid = 0
                      THEN [svc |-> s1, raised |-> TRUE, connect |-> "auth_failed"]
                      ELSE [svc |-> s1, raised |-> FALSE, connect |-> "created"])
    ELSE [svc |-> svc, raised |-> FALSE, connect |-> "reused"]

\* the outcome of the backend's answers during one call
Envs ==
    [connect_auth : BOOLEAN,
     auth : [{"users_cache", "partners_cache", "stages_cache"} -> BOOLEAN],
     rpc : [{"users_cache", "partners_cache", "stages_cache"} -> BOOLEAN]]

\* progress of a call: the service, whether ConnectionError was raised, how the
\* connection was obtained, which lookups failed, how many lookups were made
\* for each cache and what the first of them returned
Started(svc) ==
    [svc |-> svc, raised |-> FALSE, connect |-> "none", failed |-> {},
     fetched |-> [c \in {"users_cache", "partners_cache", "stages_cache"} |-> 0],
     values |-> [c \in {"users_cache", "partners_cache", "stages_cache"} |-> NoneCache]]

\* `self._x_cache = self.api.fetch_x()`: the api property, then the lookup
fetch(st, cache, env) ==
    With(property_api(st.svc, env.connect_auth),
         LAMBDA a :
            IF a.raised
            THEN [st EXCEPT !.svc = a.svc, !.raised = TRUE, !.connect = a.connect]
            ELSE With(lookup(a.svc, cache, env.auth[cache], env.rpc[cache]),
                      LAMBDA r :
                         [svc |-> [r.svc EXCEPT ![cache] = r.value],
                          raised |-> FALSE,
                          connect |-> IF st.connect = "none" THEN a.connect
                                      ELSE st.connect,
                          failed |-> IF r.failed THEN st.failed \cup {cache}
                                     ELSE st.failed,
                          fetched |-> [st.fetched EXCEPT ![cache] = @ + 1],
                          values |-> IF st.fetched[cache] = 0
                                     THEN [st.values EXCEPT ![cache] = r.value]
                                     ELSE st.values]))

\* mutant of load: the cache is fetched whether or not it is already populated
loadAlways(st, cache, env) == IF st.raised THEN st ELSE fetch(st, cache, env)

\* `if self._x_cache is None: self._x_cache = self.api.fetch_x()`
load(st, cache, env) ==
    IF st.raised \/ ~st.svc[cache].is_none THEN st ELSE fetch(st, cache, env)

\* lazy-load caches (enrich_ticket, first three statements)
lazy_load(st, env) ==
    With(st, LAMBDA st0 :
    With(load(st0, "users_cache", env), LAMBDA st1 :
    With(load(st1, "partners_cache", env), LAMBDA st2 :
         load(st2, "stages_cache", env))))

\* the arguments of fetch_tickets: dates as 'YYYY-MM-DD' strings, end_date may
\* be None; the optional list of filter triples may be None or empty
SinceDates == {"2024-03-01"}

EndDates == {None, "2024-03-31"}

\* datetime.now().strftime('%Y-%m-%d') at the time of the call
NowDate == "2024-03-15"

\* Optional[List]: None, or a list
NoList == [is_none |-> TRUE, items |-> <<>>]

SomeList(l) == [is_none |-> FALSE, items |-> l]

\* values inside a filter triple: an int, False, a str, a list
Value(type, v) == [t |-> type, v |-> v]

CallerDomains ==
    {NoList, SomeList(<<>>),
     SomeList(<< <<"user_id", "=", Value("int", 2)>> >>),
     SomeList(<< <<"priority", "=", Value("str", <<"3">>)>>,
                 <<"close_date", "=", Value("bool", FALSE)>> >>)}

\* a list argument is truthy when it is neither None nor empty
ListTruthy(l) == ~l.is_none /\ l.items # <<>>

\* the rows search_read returns for helpdesk.ticket
BackendTickets == <<[id |-> 1], [id |-> 2]>>

\* mutant of helpdesk_domain: the third argument is appended triple by triple
helpdesk_domain_extended(since_date, end_date, user_ids) ==
    << <<"write_date", ">=", Value("str", <<since_date>>)>>,
       <<"write_date", "<=", Value("str", <<IF end_date = None THEN NowDate ELSE end_date,
                                            " 23:59:59">>)>> >>
    \o (IF ListTruthy(user_ids) THEN user_ids.items ELSE <<>>)

\* OdooAPI.fetch_helpdesk_tickets: the filter it builds from its parameters
\* (since_date, end_date, user_ids); a str is the sequence of its pieces
helpdesk_domain(since_date, end_date, user_ids) ==
    << <<"write_date", ">=", Value("str", <<since_date>>)>>,
       <<"write_date", "<=", Value("str", <<IF end_date = None THEN NowDate ELSE end_date,
                                            " 23:59:59">>)>> >>
    \o (IF ListTruthy(user_ids)
        THEN << <<"user_id", "in", Value("list", user_ids.items)>> >> ELSE <<>>)

\* OdooAPI.fetch_helpdesk_tickets on connection svc: authenticate if there is
\* no uid; [] when that fails or when execute_kw raises
fetch_helpdesk_tickets(svc, since_date, end_date, user_ids, auth_ok, rpc_ok) ==
    With(IF svc.uid = 0 THEN authenticate(svc, auth_ok) ELSE svc,
         LAMBDA s1 :
            IF s1.uid = 0
            THEN [svc |-> s1, sent |-> <<>>, result |-> <<>>]
            ELSE [svc |-> s1,
                  sent |-> <<helpdesk_domain(since_date, end_date, user_ids)>>,
                  result |-> IF rpc_ok THEN BackendTickets ELSE <<>>])

\* OdooService.fetch_tickets(since_date, end_date, domain):
\* `return self.api.fetch_helpdesk_tickets(since_date, end_date, domain)`;
\* conn_uid is the uid of the connection the api property returned
fetch_tickets(svc, since_date, end_date, domain, connect_auth, auth_ok, rpc_ok) ==
    With(property_api(svc, connect_auth),
         LAMBDA a :
            IF a.raised
            THEN [svc |-> a.svc, raised |-> TRUE, connect |-> a.connect, conn_uid |-> 0,
                  sent |-> <<>>, result |-> <<>>]
            ELSE With(fetch_helpdesk_tickets(a.svc, since_date, end_date, domain,
                                             auth_ok, rpc_ok),
                      LAMBDA r :
                         [svc |-> r.svc, raised |-> FALSE, connect |-> a.connect,
                          conn_uid |-> a.svc.uid, sent |-> r.sent, result |-> r.result]))

(***************************************************************************)
(* Raw tickets and references                                              *)
(***************************************************************************)
\* a many-to-one field: absent (False / None), an [id, name] pair, or a bare id
Absent == [kind |-> "absent", id |-> 0, name |-> ""]

Pair(i, n) == [kind |-> "pair", id |-> i, name |-> n]

BareId(i) == [kind |-> "id", id |-> i, name |-> ""]

\* other shapes a field value can have: a bare string, a list of fewer than
\* two elements (id: its length), a mapping (id: its number of entries) and a
\* float (id: 0 for 0.0, 1 for 1.5)
BareStr(n) == [kind |-> "str", id |-> 0, name |-> n]

ShortList(len) == [kind |-> "list", id |-> len, name |-> ""]

Mapping(size) == [kind |-> "dict", id |-> size, name |-> ""]

Float(nonzero) == [kind |-> "float", id |-> nonzero, name |-> ""]

\* str(int) for the one-digit ids in use
Str(i) == <<"0", "1", "2", "3", "4", "5", "6", "7", "8", "9">>[i + 1]

\* Python truth value of a field value: None, False, 0, 0.0, "" and an empty
\* list or mapping are falsy
RefTruthy(ref) ==
    CASE ref.kind = "absent" -> FALSE
      [] ref.kind = "pair" -> TRUE
      [] ref.kind = "str" -> ref.name # ""
      [] OTHER -> ref.id # 0

\* mutant of extract_name_from_odoo_tuple: element 0 of a pair is returned
extract_element_zero(value) ==
    IF ~RefTruthy(value) THEN None
    ELSE IF value.kind = "pair" THEN Str(value.id)
    ELSE IF value.kind = "id" THEN Str(value.id)
    ELSE IF value.kind = "str" THEN value.name
    ELSE None

\* extract_name_from_odoo_tuple; None for "no name"
extract_name_from_odoo_tuple(value) ==
    IF ~RefTruthy(value) THEN None
    ELSE IF value.kind = "pair" THEN value.name
    ELSE IF value.kind = "id" THEN Str(value.id)
    ELSE IF value.kind = "str" THEN value.name
    ELSE None

\* mutant of OrDefault: the extracted value is used as it is
OrDefaultNever(x, dflt) == x

\* `x or default` for an Optional[str]: None and "" are falsy
OrDefault(x, dflt) == IF x = None \/ x = "" THEN dflt ELSE x

\* close_date: False when the ticket is open
NoDate == "False"

\* mutant of enrich: the close_date signal is ignored
enrichStageOnly(stages, ticket) ==
    LET stage_id_tuple == ticket.stage_id
        sid == IF stage_id_tuple.kind = "pair" THEN stage_id_tuple.id
               ELSE IF stage_id_tuple.kind = "id" THEN stage_id_tuple.id ELSE 0
        stage_name == IF stage_id_tuple.kind = "pair" THEN stage_id_tuple.name ELSE "Unknown"
        known == stage_id_tuple.kind # "absent" /\ sid \in DOMAIN stages
        stage_info == IF known THEN stages[sid]
                      ELSE [name |-> stage_name, is_closed |-> FALSE]
    IN [id |-> ticket.id,
        priority |-> ticket.priority,
        close_date |-> ticket.close_date,
        is_closed |-> stage_info.is_closed,
        user_name |-> OrDefault(extract_name_from_odoo_tuple(ticket.user_id), "Unassigned"),
        customer_name |-> OrDefault(extract_name_from_odoo_tuple(ticket.partner_id), "No Customer"),
        project_name |-> OrDefault(extract_name_from_odoo_tuple(ticket.project_id), "No Project"),
        stage_name |-> stage_info.name]

\* enrich_ticket after the caches are loaded: the EnrichedTicket (the fields
\* user, customer, project and stage repeat the *_name fields)
enrich(stages, ticket) ==
    LET stage_id_tuple == ticket.stage_id
        sid == IF stage_id_tuple.kind = "pair" THEN stage_id_tuple.id
               ELSE IF stage_id_tuple.kind = "id" THEN stage_id_tuple.id ELSE 0
        stage_name == IF stage_id_tuple.kind = "pair" THEN stage_id_tuple.name ELSE "Unknown"
        known == stage_id_tuple.kind # "absent" /\ sid \in DOMAIN stages
        stage_info == IF known THEN stages[sid]
                      ELSE [name |-> stage_name, is_closed |-> FALSE]
    IN [id |-> ticket.id,
        priority |-> ticket.priority,
        close_date |-> ticket.close_date,
        is_closed |-> stage_info.is_closed \/ ticket.close_date # NoDate,
        user_name |-> OrDefault(extract_name_from_odoo_tuple(ticket.user_id), "Unassigned"),
        customer_name |-> OrDefault(extract_name_from_odoo_tuple(ticket.partner_id), "No Customer"),
        project_name |-> OrDefault(extract_name_from_odoo_tuple(ticket.project_id), "No Project"),
        stage_name |-> stage_info.name]

\* OdooService.enrich_ticket: load the caches, then enrich
enrich_ticket(st, env, ticket) ==
    With(lazy_load(st, env),
         LAMBDA st1 :
            IF st1.raised THEN [st |-> st1, enriched |-> <<>>]
            ELSE [st |-> st1, enriched |-> <<enrich(st1.svc.stages_cache.map, ticket)>>])

(***************************************************************************)
(* The /api/search handler (odoo_query_server.query_tickets)               *)
(***************************************************************************)
\* `t[f][1] if isinstance(t[f], (list, tuple)) else str(t[f])` under
\* `if t.get(f)`, else the default; the references of the raw tickets are
\* absent, pairs or bare ids
SearchName(ref, dflt) ==
    IF RefTruthy(ref)
    THEN IF ref.kind = "pair" THEN ref.name
         ELSE IF ref.kind = "str" THEN ref.name
         ELSE Str(ref.id)
    ELSE dflt

\* the dict the handler builds for one raw ticket
search_enrich(ticket) ==
    [id |-> ticket.id,
     priority |-> ticket.priority,
     close_date |-> ticket.close_date,
     is_closed |-> ticket.close_date # NoDate,
     user |-> SearchName(ticket.user_id, "Unassigned"),
     customer |-> SearchName(ticket.partner_id, "No Customer"),
     project |-> SearchName(ticket.project_id, "No Project"),
     stage |-> SearchName(ticket.stage_id, "Unknown")]

(***************************************************************************)
(* OdooService.aggregate_by_user                                           *)
(***************************************************************************)
\* the defaultdict factory of user_activity
EmptyUserActivity ==
    [tickets_assigned |-> <<>>, customers |-> {}, projects |-> {},
     by_customer |-> <<>>, by_project |-> <<>>,
     total_tickets |-> 0, total_open |-> 0, total_closed |-> 0, by_priority |-> <<>>]

\* mutant of Tally: a closed ticket is counted as closed and as open
TallyOpenAlways(ua, e) ==
    LET ua1 == Touch(ua, e.user_name, EmptyUserActivity)
        a == ua1[e.user_name]
        bc == Touch(a.by_customer, e.customer_name, <<>>)
        bp == Touch(a.by_project, e.project_name, <<>>)
        pr == Touch(a.by_priority, e.priority, 0)
    IN [ua1 EXCEPT ![e.user_name] =
            [a EXCEPT !.tickets_assigned = Append(@, e),
                      !.customers = @ \cup {e.customer_name},
                      !.projects = @ \cup {e.project_name},
                      !.by_customer = [bc EXCEPT ![e.customer_name] = Append(@, e)],
                      !.by_project = [bp EXCEPT ![e.project_name] = Append(@, e)],
                      !.total_tickets = @ + 1,
                      !.total_closed = IF e.is_closed THEN @ + 1 ELSE @,
                      !.total_open = @ + 1,
                      !.by_priority = [pr EXCEPT ![e.priority] = @ + 1]]]

\* the aggregation statements for one retained ticket
Tally(ua, e) ==
    LET ua1 == Touch(ua, e.user_name, EmptyUserActivity)
        a == ua1[e.user_name]
        bc == Touch(a.by_customer, e.customer_name, <<>>)
        bp == Touch(a.by_project, e.project_name, <<>>)
        pr == Touch(a.by_priority, e.priority, 0)
    IN [ua1 EXCEPT ![e.user_name] =
            [a EXCEPT !.tickets_assigned = Append(@, e),
                      !.customers = @ \cup {e.customer_name},
                      !.projects = @ \cup {e.project_name},
                      !.by_customer = [bc EXCEPT ![e.customer_name] = Append(@, e)],
                      !.by_project = [bp EXCEPT ![e.project_name] = Append(@, e)],
                      !.total_tickets = @ + 1,
                      !.total_closed = IF e.is_closed THEN @ + 1 ELSE @,
                      !.total_open = IF e.is_closed THEN @ ELSE @ + 1,
                      !.by_priority = [pr EXCEPT ![e.priority] = @ + 1]]]

\* mutant of FilteredOut: no ticket is skipped
FilteredOutNever(f, user_name) == FALSE

\* `if filter_users and user_name not in filter_users: continue`
FilteredOut(f, user_name) == Truthy(f) /\ user_name \notin f.names

RECURSIVE TicketLoop(_, _, _, _, _, _)
\* for ticket in tickets (from the k-th on); an exception of enrich_ticket ends
\* the call
TicketLoop(st, env, tickets, f, ua, k) ==
    IF k > Len(tickets) THEN [st |-> st, ua |-> ua]
    ELSE With(enrich_ticket(st, env, tickets[k]),
              LAMBDA r :
                 IF r.st.raised THEN [st |-> r.st, ua |-> <<>>]
                 ELSE With(IF FilteredOut(f, r.enriched[1].user_name)
                           THEN ua ELSE Tally(ua, r.enriched[1]),
                           LAMBDA ua1 : TicketLoop(r.st, env, tickets, f, ua1, k + 1)))

\* mutant of ToUserActivity: the customers and projects keep no ascending order
ToUserActivityUnsorted(ua) ==
    [u \in DOMAIN ua |->
        [user_name |-> u,
         tickets_assigned |-> ua[u].tickets_assigned,
         customers |-> Reverse(sorted(ua[u].customers)),
         projects |-> Reverse(sorted(ua[u].projects)),
         by_customer |-> ua[u].by_customer,
         by_project |-> ua[u].by_project,
         total_tickets |-> ua[u].total_tickets,
         total_open |-> ua[u].total_open,
         total_closed |-> ua[u].total_closed,
         by_priority |-> ua[u].by_priority]]

\* convert to UserActivity models
ToUserActivity(ua) ==
    [u \in DOMAIN ua |->
        [user_name |-> u,
         tickets_assigned |-> ua[u].tickets_assigned,
         customers |-> sorted(ua[u].customers),
         projects |-> sorted(ua[u].projects),
         by_customer |-> ua[u].by_customer,
         by_project |-> ua[u].by_project,
         total_tickets |-> ua[u].total_tickets,
         total_open |-> ua[u].total_open,
         total_closed |-> ua[u].total_closed,
         by_priority |-> ua[u].by_priority]]

aggregate_by_user(st, env, tickets, f) ==
    With(TicketLoop(st, env, tickets, f, <<>>, 1),
         LAMBDA r : [st |-> r.st,
                     result |-> IF r.st.raised THEN <<>> ELSE ToUserActivity(r.ua)])

(***************************************************************************)
(* Text and regular expressions (query_parser.py)                          *)
(* A text is a sequence of one-character strings.                          *)
(***************************************************************************)
Letters ==
    {"a", "b", "c", "d", "e", "f", "g", "h", "i", "j", "k", "l", "m", "n", "o", "p", "q",
     "r", "s", "t", "u", "v", "w", "x", "y", "z"}

UpperCase == {"A", "M"}

Digits == {"0", "1", "2", "3", "4", "5", "6", "7", "8", "9"}

\* \w
IsWordChar(c) == c \in Letters \cup UpperCase \cup Digits \cup {"_"}

\* \s
IsSpace(c) == c = " "

\* [a-zA-Z0-9\s]
IsNameChar(c) == c \in Letters \cup UpperCase \cup Digits \/ IsSpace(c)

\* str.lower() on one character
LowerChar(c) ==
    CASE c = "A" -> "a"
      [] c = "M" -> "m"
      [] OTHER -> c

RECURSIVE Strip(_)
\* str.strip()
Strip(t) ==
    IF t = <<>> THEN t
    ELSE IF IsSpace(Head(t)) THEN Strip(Tail(t))
    ELSE IF IsSpace(t[Len(t)]) THEN Strip(SubSeq(t, 1, Len(t) - 1))
    ELSE t

\* query_text.lower().strip()
LowerStrip(t) == Strip([i \in 1..Len(t) |-> LowerChar(t[i])])

\* the character at position i, "" outside the text
At(t, i) == IF i \in 1..Len(t) THEN t[i] ELSE ""

\* \b just before position i
Boundary(t, i) == IsWordChar(At(t, i - 1)) # IsWordChar(At(t, i))

\* the literal w starts at position i
Lit(t, i, w) ==
    /\ i >= 1
    /\ i + Len(w) - 1 <= Len(t)
    /\ \A k \in 1..Len(w) : t[i + k - 1] = w[k]

RECURSIVE RunLen(_, _, _)
\* length of the longest run from position i of characters of one class
\* (cls: "space", "digit", "name")
RunLen(t, i, cls) ==
    IF i > Len(t) THEN 0
    ELSE IF \/ (cls = "space" /\ IsSpace(t[i]))
            \/ (cls = "digit" /\ t[i] \in Digits)
            \/ (cls = "name" /\ IsNameChar(t[i]))
         THEN 1 + RunLen(t, i + 1, cls)
         ELSE 0

\* re.search(r'\bw\b', t)
HasWord(t, w) ==
    \E i \in 1..Len(t) : Boundary(t, i) /\ Lit(t, i, w) /\ Boundary(t, i + Len(w))

\* w, then an optional "s", then \b, at position i: r'w s?\b'
LitPlural(t, i, w) ==
    /\ Lit(t, i, w)
    /\ \/ (Lit(t, i + Len(w), <<"s">>) /\ Boundary(t, i + Len(w) + 1))
       \/ Boundary(t, i + Len(w))

\* re.search(r'\bw1\s+w2\b', t)
HasPhrase(t, w1, w2) ==
    \E i \in 1..Len(t) :
        /\ Boundary(t, i) /\ Lit(t, i, w1)
        /\ RunLen(t, i + Len(w1), "space") >= 1
        /\ LET j == i + Len(w1) + RunLen(t, i + Len(w1), "space")
           IN Lit(t, j, w2) /\ Boundary(t, j + Len(w2))

DigitValue(c) ==
    CASE c = "0" -> 0 [] c = "1" -> 1 [] c = "2" -> 2 [] c = "3" -> 3 [] c = "4" -> 4
      [] c = "5" -> 5 [] c = "6" -> 6 [] c = "7" -> 7 [] c = "8" -> 8 [] c = "9" -> 9

RECURSIVE ParseInt(_)
\* int() of a digit string
ParseInt(ds) ==
    IF ds = <<>> THEN 0
    ELSE 10 * ParseInt(SubSeq(ds, 1, Len(ds) - 1)) + DigitValue(ds[Len(ds)])

\* the smallest element of a non-empty set of positions (leftmost match)
Leftmost(S) == CHOOSE i \in S : \A j \in S : i <= j

W_my == <<"m", "y">>
W_open == <<"o", "p", "e", "n">>
W_closed == <<"c", "l", "o", "s", "e", "d">>
W_all == <<"a", "l", "l">>
W_ticket == <<"t", "i", "c", "k", "e", "t">>
W_result == <<"r", "e", "s", "u", "l", "t">>
W_today == <<"t", "o", "d", "a", "y">>
W_yesterday == <<"y", "e", "s", "t", "e", "r", "d", "a", "y">>
W_this == <<"t", "h", "i", "s">>
W_last == <<"l", "a", "s", "t">>
W_week == <<"w", "e", "e", "k">>
W_month == <<"m", "o", "n", "t", "h">>
W_day == <<"d", "a", "y">>
W_for == <<"f", "o", "r">>
W_from == <<"f", "r", "o", "m">>
W_customer == <<"c", "u", "s", "t", "o", "m", "e", "r">>
W_project == <<"p", "r", "o", "j", "e", "c", "t">>

(***************************************************************************)
(* Dates (datetime.date, timedelta, strftime)                              *)
(* A date is its day number counted from 2024-01-01 (a Monday), which is   *)
(* day 1; day 0 is 2023-12-31. Dates of four-digit years are covered.      *)
(***************************************************************************)
Year == 2024

MonthLengths == <<31, 28, 31, 30, 31, 30, 31, 31, 30, 31, 30, 31>>

IsLeap(y) == (y % 4 = 0 /\ y % 100 # 0) \/ y % 400 = 0

YearLength(y) == IF IsLeap(y) THEN 366 ELSE 365

MonthLength(y, m) == IF m = 2 /\ IsLeap(y) THEN 29 ELSE MonthLengths[m]

RECURSIVE YearOf(_, _)
\* the year of the date that is day n counted from the first of January of y
YearOf(n, y) ==
    IF n < 1 THEN YearOf(n + YearLength(y - 1), y - 1)
    ELSE IF n > YearLength(y) THEN YearOf(n - YearLength(y), y + 1)
    ELSE y

RECURSIVE DayOfYear(_, _)
\* its day number within that year
DayOfYear(n, y) ==
    IF n < 1 THEN DayOfYear(n + YearLength(y - 1), y - 1)
    ELSE IF n > YearLength(y) THEN DayOfYear(n - YearLength(y), y + 1)
    ELSE n

RECURSIVE MonthIn(_, _, _)
\* the month (from month m on) of day d of year y counted from the first of m
MonthIn(y, d, m) ==
    IF d <= MonthLength(y, m) THEN m ELSE MonthIn(y, d - MonthLength(y, m), m + 1)

RECURSIVE DayIn(_, _, _)
DayIn(y, d, m) ==
    IF d <= MonthLength(y, m) THEN d ELSE DayIn(y, d - MonthLength(y, m), m + 1)

MonthOf(n) == MonthIn(YearOf(n, Year), DayOfYear(n, Year), 1)

DayOf(n) == DayIn(YearOf(n, Year), DayOfYear(n, Year), 1)

\* mutant of weekday: Sunday is 0
weekdayFromSunday(n) == n % 7

\* date.weekday(): Monday is 0
weekday(n) == (n - 1) % 7

\* date.replace(day=1)
FirstOfMonth(n) == n - (DayOf(n) - 1)

DigitChar(k) == CHOOSE c \in Digits : DigitValue(c) = k

TwoDigits(k) == <<DigitChar(k \div 10), DigitChar(k % 10)>>

FourDigits(k) == TwoDigits(k \div 100) \o TwoDigits(k % 100)

\* strftime('%Y-%m-%d')
strftime(n) ==
    FourDigits(YearOf(n, Year)) \o <<"-">> \o TwoDigits(MonthOf(n))
    \o <<"-">> \o TwoDigits(DayOf(n))

(***************************************************************************)
(* QueryParser                                                             *)
(***************************************************************************)
\* values of a domain triple
PyInt(n) == [t |-> "int", v |-> n]

PyFalse == [t |-> "bool", v |-> FALSE]

PyStr(cs) == [t |-> "str", v |-> cs]

\* PRIORITY_MAP, in insertion order
PRIORITY_MAP ==
    << <<<<"l", "o", "w">>, "0">>,
       <<<<"m", "e", "d", "i", "u", "m">>, "1">>,
       <<<<"h", "i", "g", "h">>, "2">>,
       <<<<"u", "r", "g", "e", "n", "t">>, "3">>,
       <<<<"c", "r", "i", "t", "i", "c", "a", "l">>, "3">> >>

\* 'user_id' in str(d): the field is user_id (a value from the text has no "_")
MentionsUserId(d) == d[1] = "user_id"

\* 'close_date' in str(d)
MentionsCloseDate(d) == d[1] = "close_date"

\* the open / closed test shared by patterns 1 and 3
StateTriples(q) ==
    IF HasWord(q, W_open) THEN << <<"close_date", "=", PyFalse>> >>
    ELSE IF HasWord(q, W_closed) THEN << <<"close_date", "!=", PyFalse>> >>
    ELSE <<>>

\* pattern 1: "my tickets" or "my open/closed tickets"
Ownership(q, user_id) ==
    IF HasWord(q, W_my)
    THEN << <<"user_id", "=", PyInt(user_id)>> >> \o StateTriples(q)
    ELSE <<>>

RECURSIVE PriorityFromLast(_, _)
\* mutant of PriorityFrom: the last word of PRIORITY_MAP found in the text wins
PriorityFromLast(q, k) ==
    IF k > Len(PRIORITY_MAP) THEN <<>>
    ELSE LET j == Len(PRIORITY_MAP) + 1 - k
         IN IF HasWord(q, PRIORITY_MAP[j][1])
            THEN << <<"priority", "=", PyStr(<<PRIORITY_MAP[j][2]>>)>> >>
            ELSE PriorityFromLast(q, k + 1)

RECURSIVE PriorityFrom(_, _)
\* pattern 2: the first word of PRIORITY_MAP (from the k-th on) found in the text
PriorityFrom(q, k) ==
    IF k > Len(PRIORITY_MAP) THEN <<>>
    ELSE IF HasWord(q, PRIORITY_MAP[k][1])
         THEN << <<"priority", "=", PyStr(<<PRIORITY_MAP[k][2]>>)>> >>
         ELSE PriorityFrom(q, k + 1)

\* mutant of BareState: the state triple is added whatever pattern 1 has added
BareStateAlways(domain, q) == StateTriples(q)

\* pattern 3: state filters, if not already filtered by "my open/closed"
BareState(domain, q) ==
    IF \E i \in DOMAIN domain : MentionsCloseDate(domain[i]) THEN <<>>
    ELSE StateTriples(q)

\* positions where r'\blast\s+(\d+)\s+days?\b' matches; the match's number
LastDaysAt(q, i) ==
    /\ Boundary(q, i) /\ Lit(q, i, W_last)
    /\ LET s1 == RunLen(q, i + 4, "space")
           n  == RunLen(q, i + 4 + s1, "digit")
           s2 == RunLen(q, i + 4 + s1 + n, "space")
       IN s1 >= 1 /\ n >= 1 /\ s2 >= 1 /\ LitPlural(q, i + 4 + s1 + n + s2, W_day)

LastDaysNumber(q) ==
    LET i == Leftmost({j \in 1..Len(q) : LastDaysAt(q, j)})
        s1 == RunLen(q, i + 4, "space")
    IN ParseInt(SubSeq(q, i + 4 + s1, i + 4 + s1 + RunLen(q, i + 4 + s1, "digit") - 1))

\* mutant of parse_time_filter: every phrase found adds its window
parse_time_filter_all(q, day) ==
    (IF HasWord(q, W_today)
     THEN << <<"write_date", ">=", PyStr(strftime(day))>> >> ELSE <<>>)
    \o (IF HasWord(q, W_yesterday)
        THEN << <<"write_date", ">=", PyStr(strftime(day - 1))>>,
                <<"write_date", "<", PyStr(strftime(day))>> >> ELSE <<>>)
    \o (IF HasPhrase(q, W_this, W_week)
        THEN << <<"write_date", ">=", PyStr(strftime(day - weekday(day)))>> >> ELSE <<>>)
    \o (IF HasPhrase(q, W_last, W_week)
        THEN << <<"write_date", ">=", PyStr(strftime(day - weekday(day) - 7))>>,
                <<"write_date", "<", PyStr(strftime(day - weekday(day)))>> >> ELSE <<>>)
    \o (IF HasPhrase(q, W_this, W_month)
        THEN << <<"write_date", ">=", PyStr(strftime(FirstOfMonth(day)))>> >> ELSE <<>>)
    \o (IF \E i \in 1..Len(q) : LastDaysAt(q, i)
        THEN << <<"write_date", ">=", PyStr(strftime(day - LastDaysNumber(q)))>> >> ELSE <<>>)

\* _parse_time_filter
parse_time_filter(q, day) ==
    IF HasWord(q, W_today)
    THEN << <<"write_date", ">=", PyStr(strftime(day))>> >>
    ELSE IF HasWord(q, W_yesterday)
    THEN << <<"write_date", ">=", PyStr(strftime(day - 1))>>,
            <<"write_date", "<", PyStr(strftime(day))>> >>
    ELSE IF HasPhrase(q, W_this, W_week)
    THEN << <<"write_date", ">=", PyStr(strftime(day - weekday(day)))>> >>
    ELSE IF HasPhrase(q, W_last, W_week)
    THEN << <<"write_date", ">=", PyStr(strftime(day - weekday(day) - 7))>>,
            <<"write_date", "<", PyStr(strftime(day - weekday(day)))>> >>
    ELSE IF HasPhrase(q, W_this, W_month)
    THEN << <<"write_date", ">=", PyStr(strftime(FirstOfMonth(day)))>> >>
    ELSE IF \E i \in 1..Len(q) : LastDaysAt(q, i)
    THEN << <<"write_date", ">=", PyStr(strftime(day - LastDaysNumber(q)))>> >>
    ELSE <<>>

\* the rest of r'(?:kw)\s+["\']?([a-zA-Z0-9\s]+)["\']?' from position j, with m
\* whitespace characters taken by \s+: where the group starts, 0 for no match
GroupStart(q, j, m) ==
    LET p == j + m
    IN IF At(q, p) \in {"\"", "'"} /\ RunLen(q, p + 1, "name") >= 1 THEN p + 1
       ELSE IF RunLen(q, p, "name") >= 1 THEN p
       ELSE 0

\* \s+ is greedy and gives back one character at a time
NameGroupStart(q, j) ==
    LET n == RunLen(q, j, "space")
        ok == {m \in 1..n : GroupStart(q, j, m) # 0}
    IN IF ok = {} THEN 0
       ELSE GroupStart(q, j, CHOOSE m \in ok : \A k \in ok : k <= m)

\* the keyword of kws matching at position i with its name group, <<>> if none
KeywordAt(q, i, kws) ==
    LET hits == {k \in DOMAIN kws : Lit(q, i, kws[k]) /\ NameGroupStart(q, i + Len(kws[k])) # 0}
    IN IF hits = {} THEN 0 ELSE Leftmost(hits)

\* re.search of the keyword pattern: the stripped group of the leftmost match
NameAfter(q, kws) ==
    LET at == {i \in 1..Len(q) : KeywordAt(q, i, kws) # 0}
    IN IF at = {} THEN <<>>
       ELSE LET i == Leftmost(at)
                g == NameGroupStart(q, i + Len(kws[KeywordAt(q, i, kws)]))
            IN << Strip(SubSeq(q, g, g + RunLen(q, g, "name") - 1)) >>

\* pattern 5: customer/partner name
Customer(q) ==
    LET m == NameAfter(q, <<W_for, W_from, W_customer>>)
    IN IF m = <<>> THEN <<>> ELSE << <<"partner_id.name", "ilike", PyStr(m[1])>> >>

\* pattern 6: project name
Project(q) ==
    LET m == NameAfter(q, <<W_project>>)
    IN IF m = <<>> THEN <<>> ELSE << <<"project_id.name", "ilike", PyStr(m[1])>> >>

\* positions where r'\b(\d+)\s+(?:tickets?|results?)\b' matches
LimitAt(q, i) ==
    /\ Boundary(q, i)
    /\ LET n == RunLen(q, i, "digit")
           sp == RunLen(q, i + n, "space")
       IN /\ n >= 1 /\ sp >= 1
          /\ LitPlural(q, i + n + sp, W_ticket) \/ LitPlural(q, i + n + sp, W_result)

Min(a, b) == IF a <= b THEN a ELSE b

DefaultLimit == 50

MaxLimit == 100

\* mutant of Limit: the number is taken without the ceiling
LimitUncapped(q) ==
    LET at == {i \in 1..Len(q) : LimitAt(q, i)}
    IN IF at = {} THEN DefaultLimit
       ELSE LET i == Leftmost(at)
            IN ParseInt(SubSeq(q, i, i + RunLen(q, i, "digit") - 1))

\* pattern 7: limit filters
Limit(q) ==
    LET at == {i \in 1..Len(q) : LimitAt(q, i)}
    IN IF at = {} THEN DefaultLimit
       ELSE LET i == Leftmost(at)
            IN Min(ParseInt(SubSeq(q, i, i + RunLen(q, i, "digit") - 1)), MaxLimit)

\* r'\ball\s+tickets?\b'
HasAllTickets(q) ==
    \E i \in 1..Len(q) :
        /\ Boundary(q, i) /\ Lit(q, i, W_all)
        /\ RunLen(q, i + 3, "space") >= 1
        /\ LitPlural(q, i + 3 + RunLen(q, i + 3, "space"), W_ticket)

\* pattern 8: "all tickets" - no user filter
ScopeOverride(domain, q) ==
    IF HasAllTickets(q) /\ ~HasWord(q, W_my)
    THEN SelectSeq(domain, LAMBDA d : ~MentionsUserId(d))
    ELSE domain

\* mutant of DefaultDomain: an empty domain is returned as it is
DefaultDomainNone(domain, user_id) == domain

\* if no domain specified, default to user's open tickets
DefaultDomain(domain, user_id) ==
    IF domain = <<>>
    THEN << <<"user_id", "=", PyInt(user_id)>>, <<"close_date", "=", PyFalse>> >>
    ELSE domain

\* the triples of patterns 1 to 6, in order
Patterns(q, user_id, day) ==
    With(Ownership(q, user_id) \o PriorityFrom(q, 1),
         LAMBDA d12 : d12 \o BareState(d12, q) \o parse_time_filter(q, day)
                          \o Customer(q) \o Project(q))

\* QueryParser.parse: (domain, options); order and fields are never changed
parse(text, user_id, day) ==
    With(LowerStrip(text),
         LAMBDA q :
            [domain |-> DefaultDomain(ScopeOverride(Patterns(q, user_id, day), q), user_id),
             options |-> [limit |-> Limit(q), order |-> "write_date desc",
                          fields |-> "default"]])

(***************************************************************************)
(* QueryParser.get_query_summary                                           *)
(***************************************************************************)
RECURSIVE Join(_)
\* ' '.join(words)
Join(ws) ==
    IF ws = <<>> THEN <<>>
    ELSE IF Len(ws) = 1 THEN ws[1]
    ELSE ws[1] \o <<" ">> \o Join(Tail(ws))

LowerLetters ==
    <<"a", "b", "c", "d", "e", "f", "g", "h", "i", "j", "k", "l", "m", "n", "o", "p", "q",
      "r", "s", "t", "u", "v", "w", "x", "y", "z">>

UpperLetters ==
    <<"A", "B", "C", "D", "E", "F", "G", "H", "I", "J", "K", "L", "M", "N", "O", "P", "Q",
      "R", "S", "T", "U", "V", "W", "X", "Y", "Z">>

\* str.upper() and str.lower() on one character
ToUpper(c) ==
    IF \E i \in DOMAIN LowerLetters : LowerLetters[i] = c
    THEN UpperLetters[CHOOSE i \in DOMAIN LowerLetters : LowerLetters[i] = c]
    ELSE c

ToLower(c) ==
    IF \E i \in DOMAIN UpperLetters : UpperLetters[i] = c
    THEN LowerLetters[CHOOSE i \in DOMAIN UpperLetters : UpperLetters[i] = c]
    ELSE c

\* str.capitalize(): the first character upper case, the rest lower case
capitalize(t) ==
    [i \in DOMAIN t |-> IF i = 1 THEN ToUpper(t[i]) ELSE ToLower(t[i])]

RECURSIVE Decimal(_)
\* str(n) for n >= 0
Decimal(n) == IF n < 10 THEN <<DigitChar(n)>> ELSE Decimal(n \div 10) \o <<DigitChar(n % 10)>>

W_your == <<"y", "o", "u", "r">>
W_since == <<"s", "i", "n", "c", "e">>
W_priority == <<"p", "r", "i", "o", "r", "i", "t", "y">>
W_limit == <<"l", "i", "m", "i", "t">>
W_matching == <<"m", "a", "t", "c", "h", "i", "n", "g">>

\* "your" or "all"
UserPart(domain) ==
    IF \E i \in DOMAIN domain : MentionsUserId(domain[i]) THEN <<W_your>> ELSE <<W_all>>

\* "open" or "closed"
StatePart(domain) ==
    IF \E i \in DOMAIN domain : MentionsCloseDate(domain[i])
    THEN IF \E i \in DOMAIN domain : domain[i] = <<"close_date", "=", PyFalse>>
         THEN <<W_open>>
         ELSE IF \E i \in DOMAIN domain : domain[i] = <<"close_date", "!=", PyFalse>>
         THEN <<W_closed>>
         ELSE <<>>
    ELSE <<>>

RECURSIVE PriorityPart(_, _)
\* the first word of PRIORITY_MAP (from the k-th on) whose code is in the filter
PriorityPart(domain, k) ==
    IF k > Len(PRIORITY_MAP) THEN <<>>
    ELSE IF \E i \in DOMAIN domain :
                domain[i] = <<"priority", "=", PyStr(<<PRIORITY_MAP[k][2]>>)>>
         THEN << PRIORITY_MAP[k][1] \o <<" ">> \o W_priority >>
         ELSE PriorityPart(domain, k + 1)

RECURSIVE CustomerParts(_, _)
\* one clause for every partner_id ... ilike triple (from the i-th triple on)
CustomerParts(domain, i) ==
    IF i > Len(domain) THEN <<>>
    ELSE (IF domain[i][1] = "partner_id.name" /\ domain[i][2] = "ilike"
          THEN << W_for \o <<" ">> \o W_customer \o <<" ">> \o W_matching
                  \o <<" ", "'">> \o domain[i][3].v \o <<"'">> >>
          ELSE <<>>)
         \o CustomerParts(domain, i + 1)

\* "since <date>" for the first write_date >= triple
TimePart(domain) ==
    LET at == {i \in DOMAIN domain : domain[i][1] = "write_date" /\ domain[i][2] = ">="}
    IN IF at = {} THEN <<>>
       ELSE << W_since \o <<" ">> \o domain[Leftmost(at)][3].v >>

\* mutant of LimitSuffix: the suffix is appended whatever the limit
LimitSuffixAlways(options) ==
    <<" ", "(">> \o W_limit \o <<":", " ">> \o Decimal(options.limit) \o <<")">>

\* " (limit: N)" when the limit is below 100
LimitSuffix(options) ==
    IF options.limit < 100
    THEN <<" ", "(">> \o W_limit \o <<":", " ">> \o Decimal(options.limit) \o <<")">>
    ELSE <<>>

get_query_summary(domain, options) ==
    With(UserPart(domain) \o StatePart(domain) \o PriorityPart(domain, 1)
            \o << W_ticket \o <<"s">> >> \o CustomerParts(domain, 1) \o TimePart(domain),
         LAMBDA parts : capitalize(Join(parts) \o LimitSuffix(options)))

(***************************************************************************)
(* Inputs of enrich_ticket and aggregate_by_user                           *)
(***************************************************************************)
\* length of the ticket list given to aggregate_by_user
MaxTickets == 2

\* raw tickets given to enrich_ticket
Tickets ==
    [id : {1},
     user_id : {Absent, Pair(7, "Alice"), Pair(7, ""), BareId(7), BareId(0)},
     partner_id : {Absent, Pair(5, "ACME")},
     project_id : {Absent, Pair(3, "Portal")},
     stage_id : {Absent, Pair(1, "New"), Pair(1, "Neu"), Pair(2, "Done"), Pair(9, "Gone"),
                 BareId(2), BareId(9)},
     close_date : {NoDate, "2024-05-01"},
     priority : {"0", "3"}]

\* raw tickets in the lists given to aggregate_by_user (the id is the position):
\* assigned or not, in an open or a folded stage, and either a low priority
\* ticket of a customer or an urgent ticket of a project
ListTickets(i) ==
    {[id |-> i, user_id |-> u, partner_id |-> d[1], project_id |-> d[2],
      stage_id |-> sg, close_date |-> NoDate, priority |-> d[3]] :
        u \in {Absent, Pair(7, "Alice")},
        d \in {<<Pair(5, "ACME"), Absent, "0">>, <<Absent, Pair(3, "Portal"), "3">>},
        sg \in {Pair(1, "New"), Pair(2, "Done")}}

TicketLists ==
    UNION {{l \in [1..n -> UNION {ListTickets(i) : i \in 1..n}] :
                \A i \in 1..n : l[i].id = i} : n \in 0..MaxTickets}

UserFilters ==
    {NoFilter, SomeFilter({}), SomeFilter({"Alice"}), SomeFilter({"Unassigned", "Carol"})}

\* no call in progress or returned
Idle ==
    [op |-> "none", tickets |-> <<>>, filter |-> NoFilter, raised |-> FALSE,
     connect |-> "none", failed |-> {}, enriched |-> <<>>, result |-> <<>>,
     unfiltered |-> <<>>, first |-> <<>>,
                       args |-> <<>>, sent |-> <<>>, conn_uid |-> 0]

CacheNames == {"users_cache", "partners_cache", "stages_cache"}

\* the backend's answers that a call on this service can ask for: the
\* authentication of a new connection, the re-authentication inside a lookup
\* when the connection has no uid, and the lookup for a cache still to be
\* loaded; an answer that is never asked for is fixed to TRUE
EnvsFor(svc) ==
    {e \in Envs :
        /\ ~(svc.api = "None" /\ svc.password) => e.connect_auth
        /\ \A c \in CacheNames :
            /\ ~(svc[c].is_none /\ svc.api = "OdooAPI" /\ svc.uid = 0) => e.auth[c]
            /\ ~(svc[c].is_none /\ (svc.api = "OdooAPI" \/ svc.password)) => e.rpc[c]}

(***************************************************************************)
(* Inputs of QueryParser.parse                                             *)
(***************************************************************************)
\* number of words in a query text
MaxWords == 3

\* QueryParser(user_id=2, ...)
CurrentUser == 2

\* 2024-03-01, a Friday
FirstOfMarch == 61

\* words of a query about ownership, state, priority, time, customer, project
\* and result cap
ScopeWords ==
    {<<"M", "y">>, W_my, W_all, W_ticket \o <<"s">>, W_open, W_closed,
     <<"u", "r", "g", "e", "n", "t">>, W_today, W_for, W_project,
     <<"a", "c", "m", "e">>, <<"s", "h", "o", "w">>, <<"1", "0">>}

Texts(words) == {Join(ws) : ws \in UNION {[1..n -> words] : n \in 0..MaxWords}}

\* words of a query about priority, one of them only the start of a longer word
PriorityWords ==
    {PRIORITY_MAP[k][1] : k \in DOMAIN PRIORITY_MAP}
    \cup {<<"h", "i", "g", "h", "e", "s", "t">>, W_ticket \o <<"s">>}

\* phrases of a query about a time window
TimeWords ==
    {W_today, W_yesterday, W_this \o <<" ">> \o W_week, W_last \o <<" ">> \o W_week,
     W_this \o <<" ">> \o W_month, W_last \o <<" ", "7", " ">> \o W_day \o <<"s">>,
     W_ticket \o <<"s">>}

\* current dates: the first week of 2024 (Monday to Sunday, the weeks before
\* it are in 2023) and the first of March
Dates == 1..7 \cup {FirstOfMarch}

\* words of a query about the result cap, one number inside a longer word
LimitWords ==
    {<<"5">>, <<"2", "0", "0">>, <<"1", "0", "0">>, <<"x", "1", "0">>,
     W_ticket, W_ticket \o <<"s">>, W_result, W_result \o <<"s">>}

\* words of a query about a customer or a project, some of them ending in a
\* keyword or containing one
KeywordWords ==
    {W_project, <<"s", "u", "b">> \o W_project, <<"a", "l", "p", "h", "a">>,
     W_for, <<"b", "e">> \o W_for \o <<"e">>, <<"t", "h", "e", "r", "e">> \o W_for,
     <<"r", "e">> \o W_open, <<"a">> \o W_my}

\* the vocabularies the query texts are made of
Vocabularies == {ScopeWords, PriorityWords, LimitWords, KeywordWords}

QueryTexts == UNION {Texts(V) : V \in Vocabularies}

NotParsed == [domain |-> <<>>, options |-> [limit |-> 0, order |-> "", fields |-> ""]]

(***************************************************************************)
(* Threads calling enrich_ticket on one OdooService                        *)
(***************************************************************************)
Threads == {1, 2}

\* the caches in the order enrich_ticket loads them
CacheOrder == <<"users_cache", "partners_cache", "stages_cache">>

\* no remote call in flight
NoRpc == [obj |-> 0, proxy |-> "none", clash |-> FALSE]

\* a thread that is not running enrich_ticket
NoThread ==
    [pc |-> "idle", c |-> 1, obj |-> 0, rpc |-> NoRpc, value |-> NoneCache,
     ticket |-> <<>>, enriched |-> <<>>, raised |-> FALSE]

\* the tickets the threads enrich
ThreadTickets ==
    {[id |-> 1, user_id |-> Pair(7, "Alice"), partner_id |-> Absent, project_id |-> Absent,
      stage_id |-> BareId(2), close_date |-> NoDate, priority |-> "0"],
     [id |-> 2, user_id |-> Absent, partner_id |-> Pair(5, "ACME"), project_id |-> Absent,
      stage_id |-> Pair(1, "Neu"), close_date |-> NoDate, priority |-> "3"]}

(***************************************************************************)
(* The generate command (ear/main.py)                                      *)
(***************************************************************************)
\* the options of one run: --odoo-only, --include-odoo, --devs given, and
\* whether config.odoo.password is set
CliOptions == [odoo_only : BOOLEAN, include_odoo : BOOLEAN, devs : BOOLEAN, password : BOOLEAN]

\* a run of generate: its position, the two activity mappings ("empty": {},
\* "None": None), the exception being propagated inside the try block, the exit
\* status (-1: still running), whether a "No ... found" message was printed,
\* whether an error occurred
NoRun ==
    [pc |-> "idle", opts |-> [odoo_only |-> FALSE, include_odoo |-> FALSE, devs |-> FALSE,
                              password |-> FALSE],
     developer_activity |-> "empty", odoo_user_activity |-> "None", pending |-> "none",
     exit_code |-> -1, no_activity |-> FALSE, error |-> FALSE]

IdleCli == cli = NoRun

\* raise exc inside the try block: control goes to the except clause
Raise(run, exc) == [run EXCEPT !.pc = "except", !.pending = exc]

\* mutant of Caught: typer.Exit passes through `except Exception`
CaughtErrorsOnly(exc) == exc = "Exception"

\* `except Exception`: typer.Exit is click.exceptions.Exit, a RuntimeError, so
\* the clause catches it like any other error
Caught(exc) == exc \in {"Exception", "Exit0", "Exit1"}

\* the status carried by typer.Exit(code)
ExitCode(exc) == IF exc = "Exit0" THEN 0 ELSE 1

(***************************************************************************)
(* Specifications                                                          *)
(***************************************************************************)
IdleParser ==
    /\ query_text = <<>>
    /\ today = FirstOfMarch
    /\ parsed = NotParsed
    /\ qp_pc = "idle"
    /\ summary = <<>>

IdleGitHub ==
    /\ data = [issues |-> <<>>, prs |-> <<>>]
    /\ filter_devs = NoFilter
    /\ developer_activity = <<>>
    /\ rerun_activity = <<>>
    /\ gh_pc = "idle"

IdleExtract ==
    /\ field_value = Absent
    /\ extracted = None
    /\ ex_pc = "idle"

\* OdooService.__init__
NewService ==
    /\ api = "None"
    /\ uid = 0
    /\ users_cache = NoneCache
    /\ partners_cache = NoneCache
    /\ stages_cache = NoneCache
    /\ call = Idle
    /\ backend = 1
    /\ lookups = [c \in CacheNames |-> 0]
    /\ first_value = [c \in CacheNames |-> NoneCache]
    /\ api_ref = 0
    /\ conns = [o \in Threads |-> [uid |-> 0]]

IdleOdoo ==
    /\ password = FALSE
    /\ NewService
    /\ threads = [t \in Threads |-> NoThread]

InitGitHub ==
    /\ data \in Inputs
    /\ filter_devs = NoFilter
    /\ developer_activity = <<>>
    /\ rerun_activity = <<>>
    /\ gh_pc = "input"
    /\ IdleOdoo
    /\ IdleParser
    /\ IdleExtract
    /\ IdleCli

\* one call aggregate_by_developer(data, f)
AggregateByDeveloper ==
    /\ gh_pc = "input"
    /\ \E f \in Filters :
        /\ filter_devs' = f
        /\ developer_activity' = aggregate_by_developer(data, f)
    /\ gh_pc' = "done"
    /\ UNCHANGED <<data, rerun_activity, odooVars, qpVars, thVars, exVars, cliVars>>

\* a second call aggregate_by_developer(data, filter_devs) with the arguments
\* of the first: the function reads `data` and keeps no state of its own
AggregateByDeveloperAgain ==
    /\ gh_pc = "done"
    /\ rerun_activity' = aggregate_by_developer(data, filter_devs)
    /\ gh_pc' = "again"
    /\ UNCHANGED <<data, filter_devs, developer_activity, odooVars, qpVars, thVars, exVars, cliVars>>

NextGitHub == AggregateByDeveloper

SpecGitHub == InitGitHub /\ [][NextGitHub]_vars

InitOdoo ==
    /\ password \in BOOLEAN
    /\ NewService
    /\ threads = [t \in Threads |-> NoThread]
    /\ IdleGitHub
    /\ IdleParser
    /\ IdleExtract
    /\ IdleCli

\* mutant of SetService: the instance keeps the connection, not the caches
SetServiceWithoutCaches(svc) ==
    /\ api' = svc.api
    /\ uid' = svc.uid
    /\ users_cache' = NoneCache
    /\ partners_cache' = NoneCache
    /\ stages_cache' = NoneCache

\* the service's fields after a call
SetService(svc) ==
    /\ api' = svc.api
    /\ uid' = svc.uid
    /\ users_cache' = svc.users_cache
    /\ partners_cache' = svc.partners_cache
    /\ stages_cache' = svc.stages_cache

\* the record of the lookups the call has made
CountLookups(st) ==
    /\ lookups' = [c \in CacheNames |-> lookups[c] + st.fetched[c]]
    /\ first_value' = [c \in CacheNames |->
                          IF lookups[c] = 0 /\ st.fetched[c] > 0 THEN st.values[c]
                          ELSE first_value[c]]

\* one call enrich_ticket(t)
EnrichTicket ==
    /\ call.op = "none"
    /\ \E t \in Tickets, env \in EnvsFor(Service) :
        \E r \in {enrich_ticket(Started(Service), env, t)} :
           /\ SetService(r.st.svc)
           /\ CountLookups(r.st)
           /\ call' = [op |-> "enrich_ticket", tickets |-> <<t>>, filter |-> NoFilter,
                       raised |-> r.st.raised, connect |-> r.st.connect,
                       failed |-> r.st.failed, enriched |-> r.enriched, result |-> <<>>,
                       unfiltered |-> <<>>, first |-> <<>>,
                       args |-> <<>>, sent |-> <<>>, conn_uid |-> 0]
    /\ UNCHANGED <<password, backend, ghVars, qpVars, thVars, exVars, cliVars>>

\* one call aggregate_by_user(ts, f); `unfiltered` records what the call would
\* have returned on the same service and the same answers without a filter
AggregateByUser ==
    /\ call.op = "none"
    /\ \E ts \in TicketLists, f \in UserFilters, env \in EnvsFor(Service) :
        \E r \in {aggregate_by_user(Started(Service), env, ts, f)} :
           /\ SetService(r.st.svc)
           /\ CountLookups(r.st)
           /\ call' = [op |-> "aggregate_by_user", tickets |-> ts, filter |-> f,
                       raised |-> r.st.raised, connect |-> r.st.connect,
                       failed |-> r.st.failed, enriched |-> <<>>, result |-> r.result,
                       unfiltered |->
                           aggregate_by_user(Started(Service), env, ts, NoFilter).result,
                       first |-> <<>>,
                       args |-> <<>>, sent |-> <<>>, conn_uid |-> 0]
    /\ UNCHANGED <<password, backend, ghVars, qpVars, thVars, exVars, cliVars>>

\* one call fetch_tickets(since_date, end_date, domain)
FetchTickets ==
    /\ call.op = "none"
    /\ \E since_date \in SinceDates, end_date \in EndDates, domain \in CallerDomains,
          connect_auth \in BOOLEAN, auth_ok \in BOOLEAN, rpc_ok \in BOOLEAN :
        \E r \in {fetch_tickets(Service, since_date, end_date, domain,
                                 connect_auth, auth_ok, rpc_ok)} :
           /\ SetService(r.svc)
           /\ call' = [Idle EXCEPT !.op = "fetch_tickets",
                                    !.args = <<since_date, end_date, domain>>,
                                    !.raised = r.raised, !.connect = r.connect,
                                    !.conn_uid = r.conn_uid, !.sent = r.sent,
                                    !.result = r.result]
    /\ UNCHANGED <<password, backend, lookups, first_value, ghVars, qpVars, thVars, exVars, cliVars>>

\* a second call aggregate_by_user with the arguments of the call that has just
\* ended, on the same instance; `first` keeps the outcome of the first call
AggregateByUserAgain ==
    /\ call.op = "aggregate_by_user"
    /\ \E env \in EnvsFor(Service) :
        \E r \in {aggregate_by_user(Started(Service), env, call.tickets, call.filter)} :
           /\ SetService(r.st.svc)
           /\ CountLookups(r.st)
           /\ call' = [op |-> "aggregate_again", tickets |-> call.tickets,
                       filter |-> call.filter, raised |-> r.st.raised,
                       connect |-> r.st.connect, failed |-> r.st.failed,
                       enriched |-> <<>>, result |-> r.result, unfiltered |-> <<>>,
                       first |-> <<[raised |-> call.raised, result |-> call.result]>>,
                       args |-> <<>>, sent |-> <<>>, conn_uid |-> 0]
    /\ UNCHANGED <<password, backend, ghVars, qpVars, thVars, exVars, cliVars>>

\* the /api/search handler enriches one raw ticket of its result; it has its
\* own connection and does not touch the service
SearchEnrich ==
    /\ call.op = "none"
    /\ \E t \in Tickets :
        call' = [Idle EXCEPT !.op = "search", !.tickets = <<t>>,
                             !.enriched = <<search_enrich(t)>>]
    /\ UNCHANGED <<password, api, uid, users_cache, partners_cache, stages_cache, backend,
                   lookups, first_value, ghVars, qpVars, thVars, exVars, cliVars>>

\* the caller takes the result (or the exception); the service is kept
Return ==
    /\ call.op # "none"
    /\ call' = Idle
    /\ UNCHANGED <<password, api, uid, users_cache, partners_cache, stages_cache, backend,
                   lookups, first_value, ghVars, qpVars, thVars, exVars, cliVars>>

\* the server's data changes between two calls
BackendChanges ==
    /\ call.op = "none"
    /\ backend' \in Versions \ {backend}
    /\ UNCHANGED <<password, api, uid, users_cache, partners_cache, stages_cache, call,
                   lookups, first_value, ghVars, qpVars, thVars, exVars, cliVars>>

NextOdoo ==
    \/ EnrichTicket \/ AggregateByUser \/ FetchTickets \/ SearchEnrich
    \/ Return \/ BackendChanges

SpecOdoo == InitOdoo /\ [][NextOdoo]_vars

InitGenerate ==
    /\ \E o \in CliOptions : cli = [NoRun EXCEPT !.pc = "start", !.opts = o]
    /\ IdleGitHub
    /\ IdleOdoo
    /\ IdleParser
    /\ IdleExtract

\* get_config, the organisations, the date range, the filter, the refresh rate
\* (main.py:78-103); any of them may raise
Setup ==
    /\ cli.pc = "start"
    /\ \E ok \in BOOLEAN :
        cli' = IF ok THEN [cli EXCEPT !.pc = "github"]
               ELSE [Raise(cli, "Exception") EXCEPT !.error = TRUE]
    /\ UNCHANGED <<ghVars, odooVars, qpVars, thVars, exVars>>

\* fetch GitHub data unless --odoo-only (main.py:105-119)
GitHubStep ==
    /\ cli.pc = "github"
    /\ IF cli.opts.odoo_only
       THEN cli' = [cli EXCEPT !.pc = "odoo"]
       ELSE \E outcome \in {"error", "empty", "found"} :
            cli' = IF outcome = "error"
                   THEN [Raise(cli, "Exception") EXCEPT !.error = TRUE]
                   ELSE IF outcome = "empty" /\ ~cli.opts.include_odoo
                   THEN [Raise(cli, "Exit0") EXCEPT !.no_activity = TRUE]
                   ELSE [cli EXCEPT !.pc = "odoo", !.developer_activity = outcome]
    /\ UNCHANGED <<ghVars, odooVars, qpVars, thVars, exVars>>

\* fetch Odoo data if requested (main.py:121-144); aggregate_by_user returns {}
\* only when a filter drops every ticket
OdooStep ==
    /\ cli.pc = "odoo"
    /\ IF ~(cli.opts.include_odoo \/ cli.opts.odoo_only)
       THEN cli' = [cli EXCEPT !.pc = "check"]
       ELSE IF ~cli.opts.password
       THEN cli' = [Raise(cli, "Exit1") EXCEPT !.error = TRUE]
       ELSE \E outcome \in {"error", "no_tickets", "found"}
                             \cup (IF cli.opts.devs THEN {"empty"} ELSE {}) :
            cli' = IF outcome = "error"
                   THEN [Raise(cli, "Exit1") EXCEPT !.error = TRUE]
                   ELSE [cli EXCEPT !.pc = "check",
                                    !.odoo_user_activity =
                                        IF outcome = "no_tickets" THEN "None" ELSE outcome]
    /\ UNCHANGED <<ghVars, odooVars, qpVars, thVars, exVars>>

\* check if we have any data (main.py:146-149)
CheckData ==
    /\ cli.pc = "check"
    /\ cli' = IF cli.developer_activity = "empty"
                 /\ cli.odoo_user_activity \in {"None", "empty"}
              THEN [Raise(cli, "Exit0") EXCEPT !.no_activity = TRUE]
              ELSE [cli EXCEPT !.pc = "report"]
    /\ UNCHANGED <<ghVars, odooVars, qpVars, thVars, exVars>>

\* generate and save the report (main.py:151-187); returning from the command
\* is exit status 0
Report ==
    /\ cli.pc = "report"
    /\ \E ok \in BOOLEAN :
        cli' = IF ok THEN [cli EXCEPT !.pc = "exited", !.exit_code = 0]
               ELSE [Raise(cli, "Exception") EXCEPT !.error = TRUE]
    /\ UNCHANGED <<ghVars, odooVars, qpVars, thVars, exVars>>

\* `except Exception as e: ... raise typer.Exit(1)` (main.py:189-191); an
\* exception the clause does not catch leaves the command as it is
Except ==
    /\ cli.pc = "except"
    /\ cli' = [cli EXCEPT !.pc = "exited", !.pending = "none",
                          !.exit_code = IF Caught(cli.pending) THEN 1
                                        ELSE ExitCode(cli.pending)]
    /\ UNCHANGED <<ghVars, odooVars, qpVars, thVars, exVars>>

NextGenerate == Setup \/ GitHubStep \/ OdooStep \/ CheckData \/ Report \/ Except

SpecGenerate == InitGenerate /\ [][NextGenerate]_vars

\* either aggregator is called, and called again with the same arguments
InitTwice == InitGitHub \/ InitOdoo

NextTwice ==
    \/ gh_pc # "idle" /\ (AggregateByDeveloper \/ AggregateByDeveloperAgain)
    \/ gh_pc = "idle" /\ (NextOdoo \/ AggregateByUserAgain)

SpecTwice == InitTwice /\ [][NextTwice]_vars

InitParser ==
    /\ \/ query_text \in QueryTexts /\ today = FirstOfMarch
       \/ query_text \in Texts(TimeWords) /\ today \in Dates
    /\ parsed = NotParsed
    /\ qp_pc = "input"
    /\ summary = <<>>
    /\ IdleGitHub
    /\ IdleOdoo
    /\ IdleExtract
    /\ IdleCli

\* one call parse(query_text)
Parse ==
    /\ qp_pc = "input"
    /\ parsed' = parse(query_text, CurrentUser, today)
    /\ qp_pc' = "done"
    /\ UNCHANGED <<query_text, today, summary, ghVars, odooVars, thVars, exVars, cliVars>>

\* one call get_query_summary(domain, options) on what parse returned
Summarize ==
    /\ qp_pc = "done"
    /\ summary' = get_query_summary(parsed.domain, parsed.options)
    /\ qp_pc' = "summarized"
    /\ UNCHANGED <<query_text, today, parsed, ghVars, odooVars, thVars, exVars, cliVars>>

NextParser == Parse \/ Summarize

SpecParser == InitParser /\ [][NextParser]_vars

\* two threads enter enrich_ticket on a fresh instance with a password; the
\* server accepts the credentials and answers every request
InitThreads ==
    /\ password = TRUE
    /\ NewService
    /\ threads \in [Threads -> {[NoThread EXCEPT !.pc = "check", !.ticket = <<t>>] :
                                    t \in ThreadTickets}]
    /\ IdleGitHub
    /\ IdleParser
    /\ IdleExtract
    /\ IdleCli

\* the cache fields with cache c set to v
SetCache(c, v) ==
    /\ users_cache' = IF c = "users_cache" THEN v ELSE users_cache
    /\ partners_cache' = IF c = "partners_cache" THEN v ELSE partners_cache
    /\ stages_cache' = IF c = "stages_cache" THEN v ELSE stages_cache

\* after cache number c: the next `if self._x_cache is None`, or the enrichment
AfterCache(th) ==
    IF th.c < Len(CacheOrder) THEN [th EXCEPT !.pc = "check", !.c = @ + 1]
    ELSE [th EXCEPT !.pc = "enrich"]

\* `if self._x_cache is None:`
CheckCache(t) ==
    /\ threads[t].pc = "check"
    /\ threads' = [threads EXCEPT ![t] =
                       IF Service[CacheOrder[@.c]].is_none THEN [@ EXCEPT !.pc = "api_check"]
                       ELSE AfterCache(@)]
    /\ UNCHANGED <<odooVars, api_ref, conns, ghVars, qpVars, exVars, cliVars>>

\* the api property: `if self._api is None:` and the password test
ApiCheck(t) ==
    /\ threads[t].pc = "api_check"
    /\ threads' = [threads EXCEPT ![t] =
                       IF api_ref # 0 THEN [@ EXCEPT !.pc = "api_return"]
                       ELSE IF ~password THEN [@ EXCEPT !.pc = "done", !.raised = TRUE]
                       ELSE [@ EXCEPT !.pc = "api_create"]]
    /\ UNCHANGED <<odooVars, api_ref, conns, ghVars, qpVars, exVars, cliVars>>

\* `self._api = OdooAPI(...)`: a new connection object, uid None
ApiCreate(t) ==
    /\ threads[t].pc = "api_create"
    /\ api_ref' = t
    /\ conns' = [conns EXCEPT ![t] = [uid |-> 0]]
    /\ api' = "OdooAPI"
    /\ uid' = 0
    /\ threads' = [threads EXCEPT ![t] = [@ EXCEPT !.pc = "api_auth", !.obj = t]]
    /\ UNCHANGED <<password, users_cache, partners_cache, stages_cache, call, backend,
                   lookups, first_value, ghVars, qpVars, exVars, cliVars>>

\* `return self._api`
ApiReturn(t) ==
    /\ threads[t].pc = "api_return"
    /\ threads' = [threads EXCEPT ![t] = [@ EXCEPT !.pc = "fetch", !.obj = api_ref]]
    /\ UNCHANGED <<odooVars, api_ref, conns, ghVars, qpVars, exVars, cliVars>>

\* fetch_x: `if not self.uid:`
FetchCheckUid(t) ==
    /\ threads[t].pc = "fetch"
    /\ threads' = [threads EXCEPT ![t] =
                       [@ EXCEPT !.pc = IF conns[threads[t].obj].uid = 0 THEN "fetch_auth"
                                        ELSE "rpc"]]
    /\ UNCHANGED <<odooVars, api_ref, conns, ghVars, qpVars, exVars, cliVars>>

\* the ServerProxy a remote call goes through: common for authenticate, models
\* for execute_kw
ProxyOf(pc) == IF pc = "rpc" THEN "models" ELSE "common"

\* a remote call is sent: self._api.authenticate() of the api property (on the
\* object self._api refers to now), authenticate() of fetch_x, or execute_kw.
\* The ServerProxy of an OdooAPI object is used without a lock: a call sent
\* while another thread's call is in flight on the same proxy races with it.
BeginRpc(t) ==
    /\ threads[t].pc \in {"api_auth", "fetch_auth", "rpc"}
    /\ LET th == threads[t]
           o == IF th.pc = "api_auth" THEN api_ref ELSE th.obj
           px == ProxyOf(th.pc)
           races(u) == u # t /\ threads[u].rpc.obj = o /\ threads[u].rpc.proxy = px
       IN threads' = [u \in Threads |->
                        IF u = t
                        THEN [th EXCEPT !.obj = o,
                                        !.rpc = [obj |-> o, proxy |-> px,
                                                 clash |-> \E v \in Threads : races(v)]]
                        ELSE IF races(u) THEN [threads[u] EXCEPT !.rpc.clash = TRUE]
                        ELSE threads[u]]
    /\ UNCHANGED <<odooVars, api_ref, conns, ghVars, qpVars, exVars, cliVars>>

\* the remote call returns: the server's answer, or, for a call that raced
\* with another one on the same proxy, possibly an exception
EndRpc(t) ==
    /\ threads[t].rpc.proxy # "none"
    /\ \E ok \in IF threads[t].rpc.clash THEN BOOLEAN ELSE {TRUE} :
        LET th == [threads[t] EXCEPT !.rpc = NoRpc]
            c == CacheOrder[th.c]
        IN CASE th.pc = "api_auth" ->
                \* `if not self._api.authenticate(): raise ConnectionError`
                /\ conns' = IF ok THEN [conns EXCEPT ![th.obj].uid = UID] ELSE conns
                /\ threads' = [threads EXCEPT ![t] =
                                   IF ok THEN [th EXCEPT !.pc = "api_return"]
                                   ELSE [th EXCEPT !.pc = "done", !.raised = TRUE]]
             [] th.pc = "fetch_auth" ->
                \* `if not self.authenticate(): return {}`
                /\ conns' = IF ok THEN [conns EXCEPT ![th.obj].uid = UID] ELSE conns
                /\ threads' = [threads EXCEPT ![t] =
                                   IF ok THEN [th EXCEPT !.pc = "rpc"]
                                   ELSE [th EXCEPT !.pc = "assign", !.value = Cached(<<>>)]]
             [] th.pc = "rpc" ->
                \* execute_kw, `except Exception: return {}`
                /\ conns' = conns
                /\ threads' = [threads EXCEPT ![t] =
                                   [th EXCEPT !.pc = "assign",
                                              !.value = IF ok THEN Cached(BackendTable(c))
                                                        ELSE Cached(<<>>)]]
    /\ uid' = IF api_ref = 0 THEN uid ELSE conns'[api_ref].uid
    /\ UNCHANGED <<password, api, users_cache, partners_cache, stages_cache, call, backend,
                   lookups, first_value, api_ref, ghVars, qpVars, exVars, cliVars>>

\* `self._x_cache = ...`
AssignCache(t) ==
    /\ threads[t].pc = "assign"
    /\ SetCache(CacheOrder[threads[t].c], threads[t].value)
    /\ threads' = [threads EXCEPT ![t] = AfterCache(@)]
    /\ UNCHANGED <<password, api, uid, call, backend, lookups, first_value, api_ref, conns,
                   ghVars, qpVars, exVars, cliVars>>

\* the rest of enrich_ticket; self._stages_cache.get raises on None
Enrich(t) ==
    /\ threads[t].pc = "enrich"
    /\ threads' = [threads EXCEPT ![t] =
                       IF stages_cache.is_none THEN [@ EXCEPT !.pc = "done", !.raised = TRUE]
                       ELSE [@ EXCEPT !.pc = "done",
                                      !.enriched = <<enrich(stages_cache.map,
                                                           threads[t].ticket[1])>>]]
    /\ UNCHANGED <<odooVars, api_ref, conns, ghVars, qpVars, exVars, cliVars>>

NextThreads ==
    \E t \in Threads :
        \/ CheckCache(t)
        \/ ApiCheck(t)
        \/ ApiCreate(t)
        \/ ApiReturn(t)
        \/ FetchCheckUid(t)
        \/ BeginRpc(t)
        \/ EndRpc(t)
        \/ AssignCache(t)
        \/ Enrich(t)

SpecThreads == InitThreads /\ [][NextThreads]_vars

\* the shapes of a many-to-one field value
FieldValues ==
    {Absent}
    \cup {Pair(i, n) : i \in 0..9, n \in {"Alice", "ACME", "Portal", "New", ""}}
    \cup {BareId(i) : i \in 0..9}
    \cup {BareStr(n) : n \in {"Alice", "ACME", ""}}
    \cup {ShortList(len) : len \in {0, 1}}
    \cup {Mapping(size) : size \in {0, 1}}
    \cup {Float(x) : x \in {0, 1}}

InitExtract ==
    /\ field_value \in FieldValues
    /\ extracted = None
    /\ ex_pc = "input"
    /\ IdleGitHub
    /\ IdleOdoo
    /\ IdleParser
    /\ IdleCli

\* one call extract_name_from_odoo_tuple(field_value)
Extract ==
    /\ ex_pc = "input"
    /\ extracted' = extract_name_from_odoo_tuple(field_value)
    /\ ex_pc' = "done"
    /\ UNCHANGED <<field_value, ghVars, odooVars, qpVars, thVars, cliVars>>

NextExtract == Extract

SpecExtract == InitExtract /\ [][NextExtract]_vars

(***************************************************************************)
(* Properties of aggregate_by_developer                                    *)
(***************************************************************************)
Returned == gh_pc = "done"

\* C1: in every returned summary each counter equals the length of the list(s)
\* it counts: total_issues = len(issues_created), total_prs = len(prs_created),
\* total_reviews = len(prs_reviewed), total_comments = len(issues_commented) +
\* len(prs_commented), for every input and every filter.
C1_CountersMatchLists ==
    Returned =>
        \A dev \in DOMAIN developer_activity :
            LET a == developer_activity[dev]
            IN /\ a.total_issues = Len(a.issues_created)
               /\ a.total_prs = Len(a.prs_created)
               /\ a.total_reviews = Len(a.prs_reviewed)
               /\ a.total_comments = Len(a.issues_commented) + Len(a.prs_commented)

C1_Witness ==
    /\ Returned
    /\ Truthy(filter_devs)
    /\ \E dev \in DOMAIN developer_activity :
        /\ developer_activity[dev].total_comments = 2
        /\ developer_activity[dev].total_issues = 1

\* C6: with a non-empty filter F every key of the result is in F, and the keys
\* of the unfiltered result on the same input include the keys of the result
\* for any filter.
C6_FilteredKeys ==
    Returned =>
        /\ Truthy(filter_devs) => DOMAIN developer_activity \subseteq filter_devs.names
        /\ DOMAIN developer_activity \subseteq DOMAIN aggregate_by_developer(data, NoFilter)

C6_Witness ==
    /\ Returned
    /\ Truthy(filter_devs)
    /\ DOMAIN developer_activity # {}
    /\ DOMAIN developer_activity # DOMAIN aggregate_by_developer(data, NoFilter)

\* the resolved authors of all issue, PR, comment and review nodes of an input
ActorsIn(d) ==
    {LoginOf(d.issues[i].author) : i \in DOMAIN d.issues}
    \cup UNION {{LoginOf(c.author) : c \in Range(d.issues[i].comments)} : i \in DOMAIN d.issues}
    \cup {LoginOf(d.prs[i].author) : i \in DOMAIN d.prs}
    \cup UNION {{LoginOf(c.author) : c \in Range(d.prs[i].comments)} : i \in DOMAIN d.prs}
    \cup UNION {{LoginOf(c.author) : c \in Range(d.prs[i].reviews)} : i \in DOMAIN d.prs}

\* C7 as stated: with a filter the key set is exactly the requested names.
C7_Original_KeysAreRequestedNames ==
    (Returned /\ Truthy(filter_devs)) => DOMAIN developer_activity = filter_devs.names

\* C7 amended: with a filter the key set is exactly the requested names that
\* produced activity; a requested name without activity is absent.
C7_KeysAreActiveRequestedNames ==
    (Returned /\ Truthy(filter_devs)) =>
        DOMAIN developer_activity = filter_devs.names \cap ActorsIn(data)

C7_Witness ==
    /\ Returned
    /\ Truthy(filter_devs)
    /\ DOMAIN developer_activity # {}
    /\ filter_devs.names \ DOMAIN developer_activity # {}

\* C8: an absent author on an issue, PR, comment or review is attributed to
\* the key "ghost" whenever there is no filter or "ghost" is in the filter.
C8_AbsentAuthorIsGhost ==
    (Returned /\ Passes(filter_devs, "ghost")) =>
        /\ \A i \in DOMAIN data.issues :
            /\ data.issues[i].author = None =>
                /\ "ghost" \in DOMAIN developer_activity
                /\ data.issues[i] \in Range(developer_activity["ghost"].issues_created)
            /\ \A c \in Range(data.issues[i].comments) : c.author = None =>
                /\ "ghost" \in DOMAIN developer_activity
                /\ [issue |-> data.issues[i], comment |-> c]
                        \in Range(developer_activity["ghost"].issues_commented)
        /\ \A i \in DOMAIN data.prs :
            /\ data.prs[i].author = None =>
                /\ "ghost" \in DOMAIN developer_activity
                /\ data.prs[i] \in Range(developer_activity["ghost"].prs_created)
            /\ \A c \in Range(data.prs[i].comments) : c.author = None =>
                /\ "ghost" \in DOMAIN developer_activity
                /\ [pr |-> data.prs[i], comment |-> c]
                        \in Range(developer_activity["ghost"].prs_commented)
            /\ \A v \in Range(data.prs[i].reviews) : v.author = None =>
                /\ "ghost" \in DOMAIN developer_activity
                /\ [pr |-> data.prs[i], review |-> v]
                        \in Range(developer_activity["ghost"].prs_reviewed)

C8_Witness ==
    /\ Returned
    /\ filter_devs = SomeFilter({"ghost"})
    /\ \E i \in DOMAIN data.prs :
        /\ data.prs[i].author = None
        /\ \E v \in Range(data.prs[i].reviews) : v.author = None
        /\ \E c \in Range(data.prs[i].comments) : c.author = None

\* the repositories of all events a summary holds, in any role
ReposAttributed(a) ==
    {e.repo : e \in Range(a.issues_created)}
    \cup {e.issue.repo : e \in Range(a.issues_commented)}
    \cup {e.repo : e \in Range(a.prs_created)}
    \cup {e.pr.repo : e \in Range(a.prs_commented)}
    \cup {e.pr.repo : e \in Range(a.prs_reviewed)}

\* C9: in every summary repos is strictly ascending (sorted, duplicate-free)
\* and lists exactly the repositories of the events attributed to the actor;
\* by_repo has the same key set.
C9_ReposSortedAndComplete ==
    Returned =>
        \A dev \in DOMAIN developer_activity :
            LET a == developer_activity[dev]
            IN /\ \A i \in 1..(Len(a.repos) - 1) : StrLess(a.repos[i], a.repos[i + 1])
               /\ Range(a.repos) = ReposAttributed(a)
               /\ DOMAIN a.by_repo = ReposAttributed(a)

C9_Witness ==
    /\ Returned
    /\ \E dev \in DOMAIN developer_activity :
        LET a == developer_activity[dev]
        IN /\ a.repos = <<"org/api", "org/web">>
           /\ Len(a.issues_created) = 1
           /\ a.issues_created[1].repo = "org/web"
           /\ Len(a.issues_commented) = 1
           /\ Len(a.prs_created) = 1

(***************************************************************************)
(* Properties of OdooService.enrich_ticket and aggregate_by_user           *)
(***************************************************************************)
Aggregated == call.op = "aggregate_by_user" /\ ~call.raised

Enriched == call.op = "enrich_ticket" /\ ~call.raised

RECURSIVE SumValues(_)
\* sum(m.values()) of a mapping to numbers
SumValues(m) ==
    IF DOMAIN m = {} THEN 0
    ELSE LET k == CHOOSE k \in DOMAIN m : TRUE
         IN m[k] + SumValues([j \in DOMAIN m \ {k} |-> m[j]])

\* C2: in every UserActivity returned by aggregate_by_user, for any ticket
\* list and any filter, total_tickets = total_open + total_closed, and
\* total_tickets = the sum of the by_priority counts.
C2_TicketTotals ==
    Aggregated =>
        \A u \in DOMAIN call.result :
            LET a == call.result[u]
            IN /\ a.total_tickets = a.total_open + a.total_closed
               /\ a.total_tickets = SumValues(a.by_priority)

C2_Witness ==
    /\ Aggregated
    /\ Truthy(call.filter)
    /\ \E u \in DOMAIN call.result :
        /\ call.result[u].total_open = 1
        /\ call.result[u].total_closed = 1
        /\ DOMAIN call.result[u].by_priority = {"0", "3"}

\* a call of enrich_ticket or of aggregate_by_user has returned or raised
EnrichOrAggregate == call.op \in {"enrich_ticket", "aggregate_by_user"}

\* C3 as stated: no failure while populating the caches, a failed connection
\* or authentication on first use included, makes enrich_ticket or
\* aggregate_by_user raise.
C3_Original_NeverRaises ==
    EnrichOrAggregate => ~call.raised

\* C3 amended: a failed lookup (its request failing, or its re-authentication
\* failing) never makes the call raise: the affected cache becomes an empty
\* mapping, and enrichment falls back to the defaults. The call raises
\* ConnectionError exactly when it has to create the connection and the
\* password is missing or the authentication fails; no cache is populated then.
C3_LookupFailuresDegrade ==
    EnrichOrAggregate =>
        /\ call.raised <=> call.connect \in {"no_password", "auth_failed"}
        /\ call.failed # {} => ~call.raised
        /\ \A c \in call.failed : Service[c] = Cached(<<>>)
        /\ call.raised =>
            \A c \in CacheNames : Service[c] = NoneCache
        /\ (~call.raised /\ call.tickets # <<>>) =>
            \A c \in CacheNames : ~Service[c].is_none
        /\ (Enriched /\ "stages_cache" \in call.failed) =>
            /\ call.enriched[1].is_closed = (call.tickets[1].close_date # NoDate)
            /\ call.enriched[1].stage_name =
                    IF call.tickets[1].stage_id.kind = "pair"
                    THEN call.tickets[1].stage_id.name ELSE "Unknown"

C3_Witness ==
    /\ Aggregated
    /\ call.failed = CacheNames
    /\ call.connect = "created"
    /\ Len(call.tickets) = 2
    /\ \E u \in DOMAIN call.result : call.result[u].total_open = 2

\* C10: enrich_ticket sets is_closed exactly when the ticket's stage is found
\* in the stage cache with is_closed true (the backend row's fold), or the
\* ticket's close_date is set; for a stage not in the cache is_closed is
\* whether close_date is set.
C10_IsClosedRule ==
    Enriched =>
        LET t == call.tickets[1]
            found == t.stage_id.kind # "absent" /\ t.stage_id.id \in DOMAIN stages_cache.map
            folded == \E v \in Versions :
                         /\ stages_cache = Cached(StagesTableOf(v))
                         /\ \E r \in StageRowsOf(v) : r.id = t.stage_id.id /\ r.fold
            dated == t.close_date # NoDate
        IN /\ call.enriched[1].is_closed <=> ((found /\ folded) \/ dated)
           /\ ~found => (call.enriched[1].is_closed <=> dated)

C10_Witness ==
    /\ Enriched
    /\ call.tickets[1].stage_id = BareId(2)
    /\ call.tickets[1].close_date = NoDate
    /\ call.enriched[1].is_closed
    /\ stages_cache = Cached(StagesTable)

\* C11: enrich_ticket resolves an absent or falsy assignee, customer and
\* project reference to "Unassigned", "No Customer" and "No Project"; for a
\* stage not in the stage cache the stage name is the name of the raw
\* (id, name) reference, or "Unknown" for a bare id or an absent reference; for
\* a stage in the cache it is the cache's name.
C11_DefaultsAndStageName ==
    Enriched =>
        LET t == call.tickets[1]
            e == call.enriched[1]
            cached == t.stage_id.kind # "absent" /\ t.stage_id.id \in DOMAIN stages_cache.map
        IN /\ ~RefTruthy(t.user_id) => e.user_name = "Unassigned"
           /\ ~RefTruthy(t.partner_id) => e.customer_name = "No Customer"
           /\ ~RefTruthy(t.project_id) => e.project_name = "No Project"
           /\ (~cached /\ t.stage_id.kind = "pair") => e.stage_name = t.stage_id.name
           /\ (~cached /\ t.stage_id.kind # "pair") => e.stage_name = "Unknown"
           /\ cached => e.stage_name = stages_cache.map[t.stage_id.id].name

C11_Witness ==
    /\ Enriched
    /\ call.tickets[1].user_id = BareId(0)
    /\ call.tickets[1].partner_id = Absent
    /\ call.tickets[1].stage_id = Pair(1, "Neu")
    /\ call.enriched[1].user_name = "Unassigned"
    /\ call.enriched[1].stage_name = "New"

\* the stage name and the closed flag that the stage mapping m gives ticket t
ResolvedFrom(m, t) ==
    LET cached == t.stage_id.kind # "absent" /\ t.stage_id.id \in DOMAIN m
    IN [stage_name |-> IF cached THEN m[t.stage_id.id].name
                       ELSE IF t.stage_id.kind = "pair" THEN t.stage_id.name
                       ELSE "Unknown",
        is_closed |-> (cached /\ m[t.stage_id.id].is_closed) \/ t.close_date # NoDate]

UsesFirstLookup(t, e) ==
    LET r == ResolvedFrom(first_value["stages_cache"].map, t)
    IN e.stage_name = r.stage_name /\ e.is_closed = r.is_closed

\* C12: over any sequence of enrich_ticket and aggregate_by_user calls on one
\* instance, each of the three lookups is performed at most once; once it is
\* performed the cache holds the value of that first lookup (an empty mapping
\* when it failed) whatever the server holds now, and every enrichment is
\* resolved against it.
C12_LookupsAtMostOnce ==
    /\ \A c \in CacheNames :
        /\ lookups[c] <= 1
        /\ lookups[c] = 0 => Service[c] = NoneCache
        /\ lookups[c] = 1 => (~first_value[c].is_none /\ Service[c] = first_value[c])
    /\ Enriched =>
        /\ \A c \in CacheNames : lookups[c] = 1
        /\ UsesFirstLookup(call.tickets[1], call.enriched[1])
    /\ Aggregated =>
        \A u \in DOMAIN call.result :
            \A i \in DOMAIN call.result[u].tickets_assigned :
                LET e == call.result[u].tickets_assigned[i]
                IN \E k \in DOMAIN call.tickets :
                    call.tickets[k].id = e.id /\ UsesFirstLookup(call.tickets[k], e)

C12_Witness ==
    /\ Enriched
    /\ call.failed = {}
    /\ call.connect = "none"
    /\ backend = 2
    /\ users_cache = Cached(<<>>)
    /\ stages_cache = Cached(StagesTableOf(1))
    /\ call.tickets[1].stage_id = Pair(1, "Neu")
    /\ call.enriched[1].stage_name = "New"
    /\ ~call.enriched[1].is_closed

\* a remote call of some thread has raced with another one
Overlapped == \E t \in Threads : threads[t].rpc.clash

\* thread t has returned the enrichment a sequential run gives
AsSequential(t) ==
    /\ ~threads[t].raised
    /\ threads[t].enriched = <<enrich(StagesTable, threads[t].ticket[1])>>

\* C13: when two threads call enrich_ticket concurrently on a fresh instance,
\* in every interleaving each cache holds None or the complete result of one
\* lookup, no ticket is enriched against an unpopulated stage cache, and (the
\* server's data not changing) both threads produce the enrichment of a
\* sequential run.
C13_ThreadsAgreeWithSequentialRun ==
    /\ \A c \in CacheNames :
        Service[c] \in {NoneCache, Cached(<<>>), Cached(BackendTable(c))}
    /\ \A t \in Threads :
        /\ threads[t].pc = "enrich" => ~stages_cache.is_none
        /\ threads[t].pc = "done" => AsSequential(t)

(***************************************************************************)
(* Properties of extract_name_from_odoo_tuple                              *)
(***************************************************************************)
Extracted == ex_pc = "done"

\* C14: extract_name_from_odoo_tuple returns None for an absent or falsy
\* value, the text of element 1 for a list or tuple of at least two elements,
\* the text of the value for a bare int or string, and None for any other
\* shape (a shorter sequence, a mapping, a float); (5, "Alice") gives "Alice",
\* 5 gives "5" and None gives None. It returns for every shape.
C14_ExtractName ==
    /\ ex_pc = "input" => ENABLED Extract
    /\ Extracted =>
        LET v == field_value
            falsy == \/ v.kind = "absent"
                     \/ v.kind \in {"id", "list", "dict", "float"} /\ v.id = 0
                     \/ v.kind = "str" /\ v.name = ""
        IN /\ falsy => extracted = None
           /\ v.kind = "pair" => extracted = v.name
           /\ (v.kind = "id" /\ ~falsy) =>
                extracted = <<"1", "2", "3", "4", "5", "6", "7", "8", "9">>[v.id]
           /\ (v.kind = "str" /\ ~falsy) => extracted = v.name
           /\ v.kind \in {"list", "dict", "float"} => extracted = None
           /\ v = Pair(5, "Alice") => extracted = "Alice"
           /\ v = BareId(5) => extracted = "5"
           /\ v = Absent => extracted = None

C14_Witness ==
    /\ Extracted
    /\ field_value = Pair(5, "Alice")
    /\ extracted = "Alice"

(***************************************************************************)
(* Properties of QueryParser.parse                                         *)
(***************************************************************************)
Parsed == qp_pc = "done"

\* the text the patterns are matched against
query_lower == LowerStrip(query_text)

HasAssignee(domain) == \E i \in DOMAIN domain : domain[i][1] = "user_id"

HasCloseDate(domain) == \E i \in DOMAIN domain : domain[i][1] = "close_date"

\* C4: for a text with the whole words "all tickets" and without the whole
\* word "my", the returned filter has no assignee (user_id) triple.
C4_AllTicketsHasNoAssignee ==
    (Parsed /\ HasAllTickets(query_lower) /\ ~HasWord(query_lower, W_my)) =>
        ~HasAssignee(parsed.domain)

\* none of the ownership, priority, state, time-window, customer and project
\* patterns occurs in the text
NoPatternOccurs(q) ==
    /\ ~HasWord(q, W_my)
    /\ \A k \in DOMAIN PRIORITY_MAP : ~HasWord(q, PRIORITY_MAP[k][1])
    /\ ~HasWord(q, W_open) /\ ~HasWord(q, W_closed)
    /\ ~HasWord(q, W_today) /\ ~HasWord(q, W_yesterday)
    /\ ~HasPhrase(q, W_this, W_week) /\ ~HasPhrase(q, W_last, W_week)
    /\ ~HasPhrase(q, W_this, W_month)
    /\ ~\E i \in 1..Len(q) : LastDaysAt(q, i)
    /\ NameAfter(q, <<W_for, W_from, W_customer>>) = <<>>
    /\ NameAfter(q, <<W_project>>) = <<>>

\* C5: parse never returns an empty filter; when no pattern emits a triple
\* (the empty text and a text that only sets a result cap included) the filter
\* is exactly [(user_id, =, current user), (close_date, =, False)]; otherwise
\* the default triples are not added: an assignee triple comes from "my" and a
\* close_date triple from "open" or "closed".
C5_DefaultOnlyWhenEmpty ==
    Parsed =>
        /\ parsed.domain # <<>>
        /\ NoPatternOccurs(query_lower) =>
            parsed.domain = << <<"user_id", "=", PyInt(CurrentUser)>>,
                               <<"close_date", "=", PyFalse>> >>
        /\ ~NoPatternOccurs(query_lower) =>
            /\ HasAssignee(parsed.domain) => HasWord(query_lower, W_my)
            /\ HasCloseDate(parsed.domain) =>
                HasWord(query_lower, W_open) \/ HasWord(query_lower, W_closed)

C5_Witness ==
    /\ Parsed
    /\ NoPatternOccurs(query_lower)
    /\ parsed.options.limit = 10
    /\ Len(parsed.domain) = 2

\* the close_date triples of a filter, in order
CloseDateTriples(domain) == SelectSeq(domain, LAMBDA d : d[1] = "close_date")

\* C15: the filter holds at most one close_date triple: with the whole word
\* "open" in the text it is (close_date, =, False), otherwise with the whole
\* word "closed" it is (close_date, !=, False), whether or not "my" occurs;
\* the bare-state step adds no second triple after the ownership step.
C15_OneCloseDateTriple ==
    Parsed =>
        LET cd == CloseDateTriples(parsed.domain)
        IN /\ Len(cd) <= 1
           /\ HasWord(query_lower, W_open) => cd = << <<"close_date", "=", PyFalse>> >>
           /\ (~HasWord(query_lower, W_open) /\ HasWord(query_lower, W_closed)) =>
                cd = << <<"close_date", "!=", PyFalse>> >>

C15_Witness ==
    /\ Parsed
    /\ HasWord(query_lower, W_my)
    /\ HasWord(query_lower, W_closed)
    /\ ~HasWord(query_lower, W_open)
    /\ parsed.domain = << <<"user_id", "=", PyInt(CurrentUser)>>,
                          <<"close_date", "!=", PyFalse>> >>

\* the ordered list of priority words with their codes
PriorityCodes ==
    << <<<<"l", "o", "w">>, "0">>,
       <<<<"m", "e", "d", "i", "u", "m">>, "1">>,
       <<<<"h", "i", "g", "h">>, "2">>,
       <<<<"u", "r", "g", "e", "n", "t">>, "3">>,
       <<<<"c", "r", "i", "t", "i", "c", "a", "l">>, "3">> >>

PriorityTriples(domain) == SelectSeq(domain, LAMBDA d : d[1] = "priority")

\* C16: parse emits at most one priority triple; its code is that of the first
\* word of the list low, medium, high, urgent, critical that occurs in the text
\* as a whole word, wherever it occurs; none is emitted when none occurs.
C16_FirstListedPriority ==
    Parsed =>
        LET pr == PriorityTriples(parsed.domain)
            hits == {k \in DOMAIN PriorityCodes : HasWord(query_lower, PriorityCodes[k][1])}
        IN /\ Len(pr) <= 1
           /\ hits = {} => pr = <<>>
           /\ hits # {} =>
                pr = << <<"priority", "=", PyStr(<<PriorityCodes[Leftmost(hits)][2]>>)>> >>

C16_Witness ==
    /\ Parsed
    /\ query_text = <<"u", "r", "g", "e", "n", "t", " ", "h", "i", "g", "h", "e", "s", "t",
                      " ", "l", "o", "w">>
    /\ parsed.domain = << <<"priority", "=", PyStr(<<"0">>)>> >>

WriteDateTriples(domain) == SelectSeq(domain, LAMBDA d : d[1] = "write_date")

\* the Monday of the week of day n (day 1 is a Monday)
MondayOf(n) == CHOOSE m \in (n - 6)..n : (m - 1) % 7 = 0

\* the text asks for last week and for no window tested before it
AsksLastWeek ==
    /\ HasPhrase(query_lower, W_last, W_week)
    /\ ~HasWord(query_lower, W_today)
    /\ ~HasWord(query_lower, W_yesterday)
    /\ ~HasPhrase(query_lower, W_this, W_week)

\* C17 as stated: for a text with "last week" (and neither "today",
\* "yesterday" nor "this week") parse emits exactly (write_date, >=, Monday two
\* weeks ago) and (write_date, <, Monday of last week), for every current date.
C17_Original_LastWeekWindow ==
    (Parsed /\ AsksLastWeek) =>
        WriteDateTriples(parsed.domain) =
            << <<"write_date", ">=", PyStr(strftime(MondayOf(today) - 14))>>,
               <<"write_date", "<", PyStr(strftime(MondayOf(today) - 7))>> >>

\* C17 amended: for such a text parse emits exactly (write_date, >=, Monday of
\* last week) and (write_date, <, Monday of the current week), for every
\* current date.
C17_LastWeekWindow ==
    (Parsed /\ AsksLastWeek) =>
        WriteDateTriples(parsed.domain) =
            << <<"write_date", ">=", PyStr(strftime(MondayOf(today) - 7))>>,
               <<"write_date", "<", PyStr(strftime(MondayOf(today)))>> >>

C17_Witness ==
    /\ Parsed
    /\ today = 3
    /\ query_text = W_last \o <<" ">> \o W_week
    /\ parsed.domain =
        << <<"write_date", ">=",
             PyStr(<<"2", "0", "2", "3", "-", "1", "2", "-", "2", "5">>)>>,
           <<"write_date", "<",
             PyStr(<<"2", "0", "2", "4", "-", "0", "1", "-", "0", "1">>)>> >>

\* the numbers N of the "<N> tickets|results" occurrences, by position
CapsAt(q) ==
    [i \in {j \in 1..Len(q) : LimitAt(q, j)} |->
        ParseInt(SubSeq(q, i, i + RunLen(q, i, "digit") - 1))]

\* C18: the limit option is 50 when no "<N> tickets|results" pattern occurs and
\* min(N, 100) when it does (N of the leftmost occurrence); it never exceeds
\* 100, and the order and fields options keep their defaults.
C18_LimitOption ==
    Parsed =>
        LET caps == CapsAt(query_lower)
            limit == parsed.options.limit
        IN /\ DOMAIN caps = {} => limit = 50
           /\ DOMAIN caps # {} =>
                LET N == caps[Leftmost(DOMAIN caps)]
                IN limit = IF N < 100 THEN N ELSE 100
           /\ limit <= 100
           /\ parsed.options.order = "write_date desc"
           /\ parsed.options.fields = "default"

C18_Witness ==
    /\ Parsed
    /\ query_text = <<"x", "1", "0", " ", "2", "0", "0", " ", "r", "e", "s", "u", "l", "t",
                      "s">>
    /\ parsed.options.limit = 100

HasField(domain, f) == \E i \in DOMAIN domain : domain[i][1] = f

\* the filter of the current user's open tickets
DefaultFilter == << <<"user_id", "=", PyInt(CurrentUser)>>, <<"close_date", "=", PyFalse>> >>

\* C19: every clause of parse is triggered only by a whole-word occurrence of
\* its keyword; a keyword that is only the tail of a longer word ("subproject
\* alpha", a word ending in "for", "from" or "customer" followed by more words)
\* emits no triple for that clause.
C19_WholeWordKeywords ==
    Parsed =>
        /\ HasField(parsed.domain, "project_id.name") => HasWord(query_lower, W_project)
        /\ HasField(parsed.domain, "partner_id.name") =>
            \/ HasWord(query_lower, W_for)
            \/ HasWord(query_lower, W_from)
            \/ HasWord(query_lower, W_customer)
        /\ HasField(parsed.domain, "priority") =>
            \E k \in DOMAIN PriorityCodes : HasWord(query_lower, PriorityCodes[k][1])
        /\ (HasField(parsed.domain, "user_id") /\ parsed.domain # DefaultFilter) =>
            HasWord(query_lower, W_my)
        /\ (HasField(parsed.domain, "close_date") /\ parsed.domain # DefaultFilter) =>
            HasWord(query_lower, W_open) \/ HasWord(query_lower, W_closed)


(***************************************************************************)
(* C20: get_query_summary appends the "(limit: N)" suffix exactly when the *)
(* limit option is below 100, and builds the sentence in the fixed order   *)
(* your/all, open/closed, "<word> priority", "tickets", customer clause,   *)
(* "since <date>", with only the first character capitalized, for every    *)
(* filter produced by parse.                                               *)
(***************************************************************************)
Summarized == qp_pc = "summarized"

\* " (limit: N)" as the characters of the limit that parse returned
LimitText == <<" ", "(">> \o W_limit \o <<":", " ">> \o Decimal(parsed.options.limit) \o <<")">>

EndsWith(t, tail) ==
    /\ Len(t) >= Len(tail)
    /\ SubSeq(t, Len(t) - Len(tail) + 1, Len(t)) = tail

\* the summary without its limit suffix
Sentence ==
    IF EndsWith(summary, LimitText)
    THEN SubSeq(summary, 1, Len(summary) - Len(LimitText))
    ELSE summary

TriplesOf(field, op) ==
    SelectSeq(parsed.domain, LAMBDA d : d[1] = field /\ d[2] = op)

\* the sentences of the fixed order, for the filter that parse returned
OrderedSentences ==
    { Join(<<who>> \o st \o pr \o <<W_ticket \o <<"s">>>> \o cust \o since) :
        who \in {W_your, W_all},
        st \in {<<>>, <<W_open>>, <<W_closed>>},
        pr \in {<<>>} \cup {<<PRIORITY_MAP[k][1] \o <<" ">> \o W_priority>> :
                                k \in DOMAIN PRIORITY_MAP},
        cust \in {[i \in DOMAIN TriplesOf("partner_id.name", "ilike") |->
                    W_for \o <<" ">> \o W_customer \o <<" ">> \o W_matching \o <<" ", "'">>
                    \o TriplesOf("partner_id.name", "ilike")[i][3].v \o <<"'">>]},
        since \in {<<>>} \cup {<<W_since \o <<" ">> \o parsed.domain[i][3].v>> :
                                   i \in {j \in DOMAIN parsed.domain :
                                             parsed.domain[j][1] = "write_date"}} }

Capitals == {UpperLetters[i] : i \in DOMAIN UpperLetters}

C20_SummarySentence ==
    Summarized =>
        /\ EndsWith(summary, LimitText) <=> parsed.options.limit < 100
        /\ summary[Len(summary)] = ")" <=> parsed.options.limit < 100
        /\ \E s \in OrderedSentences : Sentence = capitalize(s)
        /\ summary[1] \in Capitals
        /\ \A i \in 2..Len(summary) : summary[i] \notin Capitals

\* "200 tickets": the limit is capped at 100 and the summary has no suffix
C20_Witness ==
    /\ Summarized
    /\ query_text = <<"2", "0", "0", " ">> \o W_ticket \o <<"s">>
    /\ parsed.options.limit = 100
    /\ summary = <<"Y">> \o Tail(W_your) \o <<" ">> \o W_open \o <<" ">> \o W_ticket \o <<"s">>

(***************************************************************************)
(* C21: for any ticket list and any non-empty user filter F,               *)
(* aggregate_by_user(tickets, F) equals aggregate_by_user(tickets, no      *)
(* filter) restricted to the keys in F: every ticket is enriched whether   *)
(* or not it is retained (the caches are loaded even when every ticket is  *)
(* skipped), the filter is compared against the resolved assignee display  *)
(* name (including "Unassigned"), and every key of the result is in F.     *)
(***************************************************************************)
\* the resolved assignee display names of the tickets of the call
ResolvedAssignees ==
    {enrich(stages_cache.map, call.tickets[i]).user_name : i \in DOMAIN call.tickets}

C21_FilterIsRestriction ==
    (Aggregated /\ Truthy(call.filter)) =>
        /\ DOMAIN call.result = DOMAIN call.unfiltered \cap call.filter.names
        /\ \A u \in DOMAIN call.result : call.result[u] = call.unfiltered[u]
        /\ DOMAIN call.result = ResolvedAssignees \cap call.filter.names
        /\ call.tickets # <<>> =>
              ~users_cache.is_none /\ ~partners_cache.is_none /\ ~stages_cache.is_none

\* two tickets, one of them unassigned, under the filter {"Unassigned", "Carol"}:
\* the unassigned ticket is kept, the ticket of Alice is dropped
C21_Witness ==
    /\ Aggregated
    /\ call.filter = SomeFilter({"Unassigned", "Carol"})
    /\ Len(call.tickets) = 2
    /\ DOMAIN call.unfiltered = {"Alice", "Unassigned"}
    /\ DOMAIN call.result = {"Unassigned"}
    /\ call.result["Unassigned"].total_tickets = 1

(***************************************************************************)
(* C22: the ticket enrichment done by the /api/search handler resolves the *)
(* assignee, customer and project display names of a raw ticket to the     *)
(* same values as OdooService.enrich_ticket, for every reference that is   *)
(* absent, an (id, name) pair (including a pair with an empty name) or a   *)
(* bare id, and derives the same is_closed value.                          *)
(***************************************************************************)
Searched == call.op = "search"

\* what enrich_ticket returns for the ticket of the call, on this service, for
\* each way the backend can answer
ServiceRows ==
    {r.enriched[1] :
        r \in {x \in {enrich_ticket(Started(Service), env, call.tickets[1]) :
                         env \in EnvsFor(Service)} : ~x.st.raised}}

SameNames(row, e) ==
    /\ row.user = e.user_name
    /\ row.customer = e.customer_name
    /\ row.project = e.project_name

C22_SearchEnrichesLikeService ==
    Searched =>
        \A e \in ServiceRows :
            /\ SameNames(call.enriched[1], e)
            /\ call.enriched[1].is_closed = e.is_closed

(***************************************************************************)
(* C23: running aggregate_by_developer twice on the same input and filter  *)
(* yields structurally equal results and leaves the input unchanged;       *)
(* running aggregate_by_user twice on the same OdooService instance with   *)
(* the same tickets and filter yields structurally equal results (the      *)
(* second call returns whenever the first one did).                        *)
(***************************************************************************)
RanTwice == call.op = "aggregate_again" /\ ~call.first[1].raised

SecondRunsEqual ==
    /\ gh_pc = "again" => rerun_activity = developer_activity
    /\ RanTwice => (~call.raised /\ call.result = call.first[1].result)

Occurrences(s, x) == Cardinality({i \in DOMAIN s : s[i] = x})

\* actor `who` passes the filter and has item x exactly once in the role list
RecordedOnce(who, role, x) ==
    Passes(filter_devs, who) =>
        /\ who \in DOMAIN developer_activity
        /\ Occurrences(developer_activity[who][role], x) = 1

C24_BranchesIndependent ==
    gh_pc = "done" =>
        /\ \A k \in DOMAIN data.issues :
            LET issue == data.issues[k]
            IN /\ RecordedOnce(LoginOf(issue.author), "issues_created", issue)
               /\ \A j \in DOMAIN issue.comments :
                    RecordedOnce(LoginOf(issue.comments[j].author), "issues_commented",
                                 [issue |-> issue, comment |-> issue.comments[j]])
        /\ \A k \in DOMAIN data.prs :
            LET pr == data.prs[k]
            IN /\ RecordedOnce(LoginOf(pr.author), "prs_created", pr)
               /\ \A j \in DOMAIN pr.comments :
                    RecordedOnce(LoginOf(pr.comments[j].author), "prs_commented",
                                 [pr |-> pr, comment |-> pr.comments[j]])
               /\ \A j \in DOMAIN pr.reviews :
                    RecordedOnce(LoginOf(pr.reviews[j].author), "prs_reviewed",
                                 [pr |-> pr, review |-> pr.reviews[j]])

\* under the filter {alice}: bob's issue is not recorded, alice's comment on it
\* is, linked to the issue
C24_Witness ==
    /\ gh_pc = "done"
    /\ filter_devs = SomeFilter({"alice"})
    /\ Len(data.issues) = 1 /\ data.issues[1].author = "bob"
    /\ Len(data.issues[1].comments) = 1
    /\ DOMAIN developer_activity = {"alice"}
    /\ developer_activity["alice"].issues_commented =
            <<[issue |-> data.issues[1], comment |-> data.issues[1].comments[1]]>>
    /\ developer_activity["alice"].total_issues = 0
    /\ developer_activity["alice"].total_comments = 1

(***************************************************************************)
(* C25: for every query text, parse emits the filter of at most one time   *)
(* window: when several time phrases occur, the one earliest in the order  *)
(* today, yesterday, this week, last week, this month, last N days         *)
(* decides; "yesterday" and "last week" emit a lower bound (>=) and an     *)
(* upper bound (<) with lower strictly before upper, and every other       *)
(* window emits a single lower bound that is not after today.              *)
(***************************************************************************)
\* which of the six phrases occur in the text, in the order they are tested
PhrasesFound ==
    {k \in 1..6 :
        CASE k = 1 -> HasWord(query_lower, W_today)
          [] k = 2 -> HasWord(query_lower, W_yesterday)
          [] k = 3 -> HasPhrase(query_lower, W_this, W_week)
          [] k = 4 -> HasPhrase(query_lower, W_last, W_week)
          [] k = 5 -> HasPhrase(query_lower, W_this, W_month)
          [] k = 6 -> \E i \in 1..Len(query_lower) : LastDaysAt(query_lower, i)}

\* the first day of the window of phrase k
WindowStart(k) ==
    CASE k = 1 -> today
      [] k = 2 -> today - 1
      [] k = 3 -> MondayOf(today)
      [] k = 4 -> MondayOf(today) - 7
      [] k = 5 -> CHOOSE d \in (today - 30)..today :
                    /\ DayOf(d) = 1
                    /\ MonthOf(d) = MonthOf(today)
      [] k = 6 -> today - LastDaysNumber(query_lower)

InputPosition(role, x) ==
    CASE role = "issues_created" -> <<x.number, 0>>
      [] role = "prs_created" -> <<x.number, 0>>
      [] role = "issues_commented" -> <<x.issue.number, x.comment.id>>
      [] role = "prs_commented" -> <<x.pr.number, x.comment.id>>
      [] role = "prs_reviewed" -> <<x.pr.number, x.review.id>>

Before(p, q) == p[1] < q[1] \/ (p[1] = q[1] /\ p[2] < q[2])

InInputOrder(role, s) ==
    \A i, j \in DOMAIN s :
        i < j => Before(InputPosition(role, s[i]), InputPosition(role, s[j]))

\* a ticket list in the order of the input (a ticket's id is its position)
TicketsInInputOrder(s) == \A i, j \in DOMAIN s : i < j => s[i].id < s[j].id

\* a name list in ascending order without duplicates
Ascending(s) == \A i, j \in DOMAIN s : i < j => StrLess(s[i], s[j])

C26_ListsKeepInputOrder ==
    /\ gh_pc = "done" =>
        \A dev \in DOMAIN developer_activity :
            LET a == developer_activity[dev]
            IN /\ \A role \in Roles :
                    /\ InInputOrder(role, a[role])
                    /\ \A r \in DOMAIN a.by_repo : InInputOrder(role, a.by_repo[r][role])
               /\ Ascending(a.repos)
    /\ Aggregated =>
        \A u \in DOMAIN call.result :
            LET a == call.result[u]
            IN /\ TicketsInInputOrder(a.tickets_assigned)
               /\ \A c \in DOMAIN a.by_customer : TicketsInInputOrder(a.by_customer[c])
               /\ \A p \in DOMAIN a.by_project : TicketsInInputOrder(a.by_project[p])
               /\ Ascending(a.customers)
               /\ Ascending(a.projects)

\* alice has two issues in org/web and an earlier one in org/api: the lists keep
\* the input order, the repository names are sorted
C26_Witness ==
    /\ gh_pc = "done"
    /\ "alice" \in DOMAIN developer_activity
    /\ Len(developer_activity["alice"].issues_created) = 3
    /\ developer_activity["alice"].issues_created[1].repo = "org/web"
    /\ developer_activity["alice"].issues_created[2].repo = "org/api"
    /\ developer_activity["alice"].repos = <<"org/api", "org/web">>
    /\ Len(developer_activity["alice"].by_repo["org/web"].issues_created) = 2

(***************************************************************************)
(* C27: every access to OdooService.api either raises ConnectionError or   *)
(* returns a connection that has been authenticated (uid set): after an    *)
(* access on which authentication failed, a later access never returns the *)
(* unauthenticated connection object.                                      *)
(***************************************************************************)
Fetched == call.op = "fetch_tickets"

C27_ApiReturnsAuthenticated ==
    (Fetched /\ ~call.raised) => call.conn_uid # 0

(***************************************************************************)
(* C29: OdooService.fetch_tickets(since_date, end_date, domain) applies    *)
(* the caller's domain as additional filter triples: every triple of       *)
(* domain is part, unchanged, of the filter sent to the backend together   *)
(* with the write_date range.                                              *)
(***************************************************************************)
C29_CallerDomainIsSent ==
    (Fetched /\ call.sent # <<>>) =>
        LET domain == call.args[3]
            sent == call.sent[1]
        IN /\ sent[1] = <<"write_date", ">=", Value("str", <<call.args[1]>>)>>
           /\ sent[2][1] = "write_date" /\ sent[2][2] = "<="
           /\ \A i \in DOMAIN domain.items :
                \E j \in DOMAIN sent :
                    /\ sent[j][1] = domain.items[i][1]
                    /\ sent[j][2] = domain.items[i][2]
                    /\ sent[j][3].t = domain.items[i][3].t
                    /\ sent[j][3] = domain.items[i][3]

(***************************************************************************)
(* C28: the generate command ends with exit status 0 when no activity is   *)
(* found (no GitHub activity with Odoo not requested, or no data from any  *)
(* requested source), and with exit status 1 only when an error occurred.  *)
(***************************************************************************)
Exited == cli.pc = "exited"

C28_ExitStatus ==
    Exited =>
        /\ (cli.no_activity /\ ~cli.error) => cli.exit_code = 0
        /\ cli.exit_code = 1 => cli.error

(***************************************************************************)
(* C30: in every UserActivity returned by aggregate_by_user, the keys of   *)
(* by_customer equal the customers list and the keys of by_project equal   *)
(* the projects list (both lists sorted and duplicate-free), every ticket  *)
(* of tickets_assigned occurs in exactly one by_customer group and exactly *)
(* one by_project group, and len(tickets_assigned) == total_tickets.       *)
(***************************************************************************)
\* the keys of the mapping `groups` whose list holds ticket e
GroupsHolding(groups, e) == {g \in DOMAIN groups : e \in Range(groups[g])}

UserActivityShape(a) ==
    /\ Range(a.customers) = DOMAIN a.by_customer
    /\ Range(a.projects) = DOMAIN a.by_project
    /\ Ascending(a.customers)
    /\ Ascending(a.projects)
    /\ \A i \in DOMAIN a.tickets_assigned :
        /\ Cardinality(GroupsHolding(a.by_customer, a.tickets_assigned[i])) = 1
        /\ Cardinality(GroupsHolding(a.by_project, a.tickets_assigned[i])) = 1
    /\ Len(a.tickets_assigned) = a.total_tickets

C30_UserActivityShape ==
    Aggregated => \A u \in DOMAIN call.result : UserActivityShape(call.result[u])

\* a user with two tickets, of two customers and two projects
C30_Witness ==
    /\ Aggregated
    /\ \E u \in DOMAIN call.result :
        /\ Len(call.result[u].tickets_assigned) = 2
        /\ Len(call.result[u].customers) = 2
        /\ Len(call.result[u].projects) = 2
        /\ call.result[u].tickets_assigned[1].customer_name = "No Customer"

====
